---- MODULE Spec2Model ----
(***************************************************************************)
(* The block prefetcher of libkbfs (blockPrefetcher): its run loop, the    *)
(* tracking goroutine it spawns per accepted request, request(), the       *)
(* fan-out of PrefetchAfterBlockRetrieved / PrefetchBlock, and Shutdown().  *)
(*                                                                         *)
(* Channels follow the Go runtime: a goroutine that finds no ready case    *)
(* in a select parks on all of its channels; a close() or a counterpart    *)
(* that later polls commits the parked goroutine to one case atomically.   *)
(* The retriever and the block cache are the environment: the retriever    *)
(* delivers one value on every channel it returned, the cache may gain or  *)
(* lose any pointer at any time.                                           *)
(*                                                                         *)
(* The i-th entry of the block handed to PrefetchAfterBlockRetrieved is    *)
(* drawn when the fan-out loop reads it; the number of entries is drawn    *)
(* when the call starts (it is what wg.Add receives).                      *)
(*                                                                         *)
(* A second specification, RetrievalSpec, looks at the same prefetcher     *)
(* from the block retrieval queue that drives it: blocks form a small      *)
(* tree, a retrieval that succeeds stores the block in the cache with its  *)
(* hasPrefetched flag and, when it triggers a prefetch round, runs the     *)
(* whole fan-out of PrefetchAfterBlockRetrieved in one step.               *)
(*                                                                         *)
(* A third specification, ResolveSpec, is makeTlfHandleHelper with the     *)
(* resolveOneUser goroutines it starts: the writers and readers resolve    *)
(* concurrently and report over errCh and four buffered result channels.   *)
(* ResolveAgainSpec puts ResolveAgain and ResolveAgainForUser in front of   *)
(* it. StorerSpec is configWithoutRemotesStorer: SetConfig and Config.      *)
(***************************************************************************)
EXTENDS Integers, Sequences, FiniteSets, TLC

\* ---- bounds ----
NumIDs == 1
NumCalls == 2
MaxChildren == 2
MaxRequests == 2
NumShutdownCalls == 2
MaxSize == 2
MaxDemand == 2

\* ---- program constants ----
SupportedDataVer == 1
fileIndirectBlockPrefetchPriority == -100
dirEntryPrefetchPriority == -200
updatePointerPrefetchPriority == 0
defaultPrefetchPriority == -1024
defaultOnDemandRequestPriority == 100

IDs == 1..NumIDs
DataVers == {SupportedDataVer, SupportedDataVer + 1}
BlockPointer == [ID : IDs, DataVer : DataVers]
NoID == 0

Calls == 1..NumCalls
Slots == Calls \X (1..MaxChildren)
NoSlot == <<0, 0>>
ShutdownCalls == 1..NumShutdownCalls

EntryTypes == {"Dir", "File", "Exec", "Sym"}
\* What PrefetchAfterBlockRetrieved dispatches on.  An indirect FileBlock and
\* an indirect DirBlock run the same loop; a direct FileBlock and a block of
\* any other variant both take the branch that only closes the channel.
BlockVariants == {"FileBlock", "DirBlock", "CommonBlock"}
FanOutKinds == {"Indirect", "DirDirect"}

VARIABLES
    retrieverNil,  \* newBlockPrefetcher was given a nil retriever
    syncedTlf,     \* config.IsSyncedTlf(kmd.TlfID()) of the folder
    cache,         \* IDs present in config.BlockCache()
    shutdownCh,    \* "open" | "closed"
    doneCh,        \* "open" | "closed"
    panicked,      \* a close of a closed channel happened
    runPc,         \* position of run(): none|select|parked|issue|wait|exit
    runReq,        \* the request run() received and has not yet issued
    wg,            \* run()'s WaitGroup counter
    sendq,         \* callers parked in request()'s select, in arrival order
    call,          \* per call of PrefetchAfterBlockRetrieved / PrefetchBlock
    slot,          \* per child request: ID of the pointer request() admitted
    priority,      \* per child request: priority of the prefetchRequest
    reqWg,         \* per call: counter of the fan-out WaitGroup
    retDoneCh,     \* per call: channel returned: none|open|closed
    waiterPc,      \* per call: goroutine wg.Wait();close(doneCh): none|waiting|done
    trk,           \* per child request: tracking goroutine:
                   \*   none|select|got|cancelled|drained|deferred|fin
    errCh,         \* per child request: retriever channel none|pending|ok|err|taken
    nRequest,      \* per child request: number of retriever.Request calls
    shutPc,        \* per Shutdown() call: idle|close|returned
    tree,          \* RetrievalSpec: the contents of the root block
    bcache,        \* RetrievalSpec: per block, its entry in the block cache
    retrieval,     \* RetrievalSpec: per block, the retrieval in the queue
    childWg,       \* RetrievalSpec: per parent, fan-out counters not yet done
    lastRound,     \* RetrievalSpec: the request() calls of the last fan-out
    demanded,      \* RetrievalSpec: per block, last result of an on-demand
                   \*   request: none|nil|err, stale once the entry is removed
    delivered,     \* RetrievalSpec: per block, last value delivered to the
                   \*   tracking goroutines: none|nil|err, stale once the entry
                   \*   is removed or the block is requested on demand
    nDemand,       \* RetrievalSpec: number of on-demand requests made
    nRound,        \* RetrievalSpec: per block, the PrefetchAfterBlockRetrieved
                   \* calls for it since it was put in the cache
    tlfType,       \* ResolveSpec: t, the type of the folder
    nWriters,      \* ResolveSpec: len(writers)
    nReaders,      \* ResolveSpec: len(readers)
    resolverPc,    \* ResolveSpec: per user, the resolveOneUser goroutine:
                   \*   none|resolve|send|parked|done
    resolved,      \* ResolveSpec: per user, what user.resolve returned
    resolveErrCh,  \* ResolveSpec: errCh of makeTlfHandleHelper: its buffer and
                   \*   the goroutines parked in a send on it, in arrival order
    resultCh,      \* ResolveSpec: the buffered channels wc, uwc, rc, urc
    helperPc,      \* ResolveSpec: makeTlfHandleHelper:
                   \*   idle|entry|select|returned
    helperI,       \* ResolveSpec: i, the results received so far
    used,          \* ResolveSpec: usedWNames, usedRNames,
                   \*   usedUnresolvedWriters, usedUnresolvedReaders
    helperRet,     \* ResolveSpec: the (handle, error) the helper returned
    ctxDone,       \* ResolveSpec: ctx.Done() of the helper's context is closed
    againCall,     \* ResolveAgainSpec: the method called, its receiver h and
                   \*   whether h is final
    againPc,       \* ResolveAgainSpec: idle|ResolveAgain|ResolveAgainForUser|
                   \*   helper|returned
    againUsers,    \* ResolveAgainSpec: the writers, then the readers, handed
                   \*   to makeTlfHandleHelper
    againRet,      \* ResolveAgainSpec: the (handle, error) returned, and
                   \*   whether the handle is the receiver itself
    resolverCalls, \* ResolveAgainSpec: number of resolver.Resolve calls
    cwrsCfg,       \* StorerSpec: cwrs.cfg, the config the storer holds
    diskCfg,       \* StorerSpec: the config filesystem.Storage has on disk
    setIn,         \* StorerSpec: c as the last SetConfig(c) received it
    setErr,        \* StorerSpec: what the last SetConfig returned:
                   \*   none|nil|marshal|storage
    handed,        \* StorerSpec: the config the last SetConfig handed to
                   \*   Storage.SetConfig
    gotCfg         \* StorerSpec: what Config() returned since the last
                   \*   SetConfig

vars == <<retrieverNil, syncedTlf, cache, shutdownCh, doneCh, panicked, runPc,
          runReq, wg, sendq, call, slot, priority, reqWg, retDoneCh, waiterPc,
          trk, errCh, nRequest, shutPc, tree, bcache, retrieval, childWg,
          lastRound, demanded, delivered, nDemand, nRound, tlfType, nWriters,
          nReaders, resolverPc, resolved, resolveErrCh, resultCh, helperPc,
          helperI, used, helperRet, ctxDone, againCall, againPc, againUsers,
          againRet, resolverCalls, cwrsCfg, diskCfg, setIn, setErr, handed,
          gotCfg>>

storerVars == <<cwrsCfg, diskCfg, setIn, setErr, handed, gotCfg>>

againVars == <<againCall, againPc, againUsers, againRet, resolverCalls>>

resolveVars == <<tlfType, nWriters, nReaders, resolverPc, resolved,
                 resolveErrCh, resultCh, helperPc, helperI, used, helperRet,
                 ctxDone>>

queueVars == <<tree, bcache, retrieval, childWg, lastRound, demanded,
               delivered, nDemand, nRound>>

configVars == <<retrieverNil, syncedTlf>>

engineVars == <<shutdownCh, doneCh, panicked, runPc, runReq, wg, sendq>>
callVars == <<call, slot, priority, reqWg, retDoneCh, waiterPc>>
trkVars == <<trk, errCh, nRequest>>

\* A call: its position, the block's kind and number of entries, the
\* starting priority, the entry the loop is at, how the last iteration ended
\* (skip: entry of unknown type; hit, verr, sent, eof: the return path of
\* request()), and whether shutdownCh was already closed when request() was
\* entered.
IdleCall == [pc |-> "idle", kind |-> "none", len |-> 0, start |-> 0, idx |-> 0,
             last |-> "none", late |-> FALSE]

\* ---- the blocks of RetrievalSpec ----

\* The root block points to the blocks of Kids; block "b", when it is a
\* directory, has the one entry "d".
Kids == {"a", "b"}
Blocks == {"root", "a", "b", "d"}
Parents == {"root", "b"}

NoEntry == [present |-> FALSE, hasPrefetched |-> FALSE, lifetime |-> "none"]
NoRetrieval == [active |-> FALSE, priority |-> 0, lifetime |-> "none",
                waiters |-> 0]
NoRound == [parent |-> "none", reqs |-> <<>>]

\* The empty cache and queue.
EmptyQueue ==
    /\ bcache = [b \in Blocks |-> NoEntry]
    /\ retrieval = [b \in Blocks |-> NoRetrieval]
    /\ childWg = [p \in Parents |-> 0]
    /\ lastRound = NoRound
    /\ demanded = [b \in Blocks |-> "none"]
    /\ delivered = [b \in Blocks |-> "none"]
    /\ nDemand = 0
    /\ nRound = [b \in Blocks |-> 0]

\* No blocks, nothing cached or queued.
QueueIdle ==
    /\ tree = [isInd |-> FALSE, kids |-> {},
               typ |-> [k \in Kids |-> "File"], size |-> [k \in Kids |-> 1]]
    /\ EmptyQueue

\* ---- the users of ResolveSpec ----

\* Bound: the writers and readers handed to makeTlfHandleHelper, together.
MaxUsers == 3
Users == 1..MaxUsers

TlfTypes == {"Private", "Public", "SingleTeam"}

\* What a name resolves to: the ID of a user, the ID of a team, or a social
\* assertion that is not resolved yet.
UserOrTeamIDs == {"user", "team"}
SocialAssertions == {"sa"}
IsUser(id) == id = "user"
IsTeamOrSubteam(id) == id = "team"

\* The results of user.resolve: a nameIDPair, a SocialAssertion, an error,
\* or (against the contract of resolvableUser) all three zero.
NoResult == [kind |-> "none", val |-> "none"]
ResolveResults ==
    {[kind |-> "pair", val |-> id] : id \in UserOrTeamIDs}
    \cup {[kind |-> "social", val |-> sa] : sa \in SocialAssertions}
    \cup {[kind |-> "error", val |-> "none"], [kind |-> "empty", val |-> "none"]}

\* errCh := make(chan error, 1)
ErrChCap == 1
ResultChans == {"wc", "uwc", "rc", "urc"}

NoUsed == [usedWNames |-> {}, usedRNames |-> {},
           usedUnresolvedWriters |-> {}, usedUnresolvedReaders |-> {}]
NilHandle == [isNil |-> TRUE, tlfType |-> "none", resolvedWriters |-> {},
              resolvedReaders |-> {}, unresolvedWriters |-> {},
              unresolvedReaders |-> {}]
NoError == [kind |-> "nil", user |-> 0]
NoReturn == [h |-> NilHandle, err |-> [kind |-> "none", user |-> 0]]

\* No call of makeTlfHandleHelper.
NoResolution ==
    /\ tlfType = "Private"
    /\ nWriters = 0
    /\ nReaders = 0
    /\ resolverPc = [u \in Users |-> "none"]
    /\ resolved = [u \in Users |-> NoResult]
    /\ resolveErrCh = [buf |-> <<>>, sendq |-> <<>>]
    /\ resultCh = [c \in ResultChans |-> <<>>]
    /\ helperPc = "idle"
    /\ helperI = 0
    /\ used = NoUsed
    /\ helperRet = NoReturn
    /\ ctxDone = FALSE

\* ---- the configs of StorerSpec ----

\* A gogitcfg.Config: its Remotes, Core and Submodules, and of its Raw form
\* the remote subsections and the fields go-git does not know.
RemoteNames == {"origin", "kbfs"}
Configs == [remotes : SUBSET RemoteNames, core : {"bare", "worktree"},
            submodules : SUBSET {"sub"}, rawRemotes : SUBSET RemoteNames,
            rawOther : {"none", "extra"}]
NoConfig == [remotes |-> {}, core |-> "none", submodules |-> {},
             rawRemotes |-> {}, rawOther |-> "none"]

\* No configWithoutRemotesStorer.
NoStorer ==
    /\ cwrsCfg = NoConfig
    /\ diskCfg = NoConfig
    /\ setIn = NoConfig
    /\ setErr = "none"
    /\ handed = NoConfig
    /\ gotCfg = NoConfig

\* No call of ResolveAgain or ResolveAgainForUser.
NoAgainCall == [method |-> "none", h |-> NilHandle, final |-> FALSE]
NoAgainReturn == [same |-> FALSE, h |-> NilHandle,
                  err |-> [kind |-> "none", user |-> 0]]
NoResolveAgain ==
    /\ againCall = NoAgainCall
    /\ againPc = "idle"
    /\ againUsers = <<>>
    /\ againRet = NoAgainReturn
    /\ resolverCalls = 0

\* Mutant of PrefetcherInit: with a nil retriever doneCh is closed without
\* p.Shutdown().
PrefetcherInit_NoShutdown ==
    /\ retrieverNil \in BOOLEAN
    /\ syncedTlf \in BOOLEAN
    /\ cache \in SUBSET IDs
    /\ shutdownCh = "open"
    /\ doneCh = IF retrieverNil THEN "closed" ELSE "open"
    /\ panicked = FALSE
    /\ runPc = IF retrieverNil THEN "none" ELSE "select"
    /\ runReq = NoSlot
    /\ wg = 0
    /\ sendq = <<>>
    /\ call = [c \in Calls |-> IdleCall]
    /\ slot = [s \in Slots |-> NoID]
    /\ priority = [s \in Slots |-> 0]
    /\ reqWg = [c \in Calls |-> 0]
    /\ retDoneCh = [c \in Calls |-> "none"]
    /\ waiterPc = [c \in Calls |-> "none"]
    /\ trk = [s \in Slots |-> "none"]
    /\ errCh = [s \in Slots |-> "none"]
    /\ nRequest = [s \in Slots |-> 0]
    /\ shutPc = [k \in ShutdownCalls |-> "idle"]

\* Mutant of PrefetcherInit: with a nil retriever doneCh is left open.
PrefetcherInit_NoCloseDone ==
    /\ retrieverNil \in BOOLEAN
    /\ syncedTlf \in BOOLEAN
    /\ cache \in SUBSET IDs
    /\ shutdownCh = IF retrieverNil THEN "closed" ELSE "open"
    /\ doneCh = "open"
    /\ panicked = FALSE
    /\ runPc = IF retrieverNil THEN "none" ELSE "select"
    /\ runReq = NoSlot
    /\ wg = 0
    /\ sendq = <<>>
    /\ call = [c \in Calls |-> IdleCall]
    /\ slot = [s \in Slots |-> NoID]
    /\ priority = [s \in Slots |-> 0]
    /\ reqWg = [c \in Calls |-> 0]
    /\ retDoneCh = [c \in Calls |-> "none"]
    /\ waiterPc = [c \in Calls |-> "none"]
    /\ trk = [s \in Slots |-> "none"]
    /\ errCh = [s \in Slots |-> "none"]
    /\ nRequest = [s \in Slots |-> 0]
    /\ shutPc = [k \in ShutdownCalls |-> "idle"]

\* newBlockPrefetcher: with a nil retriever the prefetcher is shut down and
\* done at once and no run loop exists; otherwise run() is started.
PrefetcherInit ==
    /\ retrieverNil \in BOOLEAN
    /\ syncedTlf \in BOOLEAN
    /\ cache \in SUBSET IDs
    /\ shutdownCh = IF retrieverNil THEN "closed" ELSE "open"
    /\ doneCh = IF retrieverNil THEN "closed" ELSE "open"
    /\ panicked = FALSE
    /\ runPc = IF retrieverNil THEN "none" ELSE "select"
    /\ runReq = NoSlot
    /\ wg = 0
    /\ sendq = <<>>
    /\ call = [c \in Calls |-> IdleCall]
    /\ slot = [s \in Slots |-> NoID]
    /\ priority = [s \in Slots |-> 0]
    /\ reqWg = [c \in Calls |-> 0]
    /\ retDoneCh = [c \in Calls |-> "none"]
    /\ waiterPc = [c \in Calls |-> "none"]
    /\ trk = [s \in Slots |-> "none"]
    /\ errCh = [s \in Slots |-> "none"]
    /\ nRequest = [s \in Slots |-> 0]
    /\ shutPc = [k \in ShutdownCalls |-> "idle"]

Init == PrefetcherInit /\ QueueIdle /\ NoResolution /\ NoResolveAgain /\ NoStorer

\* ---- helpers ----

\* checkDataVersion: a pointer whose data version the config does not
\* support is rejected.
checkDataVersion(ptr) == ptr.DataVer <= SupportedDataVer

CurSlot(c) == <<c, call[c].idx>>

\* Mutant of calculatePriority: a synced folder gets the on-demand priority
\* itself.
calculatePriority_OnDemand(basePriority, isSynced) ==
    IF isSynced THEN defaultOnDemandRequestPriority ELSE basePriority

\* calculatePriority: the base priority for a folder that is not synced,
\* just below the on-demand priority for a synced one.
calculatePriority(basePriority, isSynced) ==
    IF isSynced THEN defaultOnDemandRequestPriority - 1 ELSE basePriority

\* Mutant of childPriority: every child gets the starting priority.
childPriority_NoIndex(startingPriority, i) == startingPriority

\* The priority of the child at 0-based position i of a fan-out.
childPriority(startingPriority, i) == startingPriority - i

\* The priorities PrefetchBlock is called with.
PrefetchPriorities == {updatePointerPrefetchPriority, defaultPrefetchPriority}

\* The caller's position after request() returned for its current child:
\* the next iteration of the fan-out loop, or the return of the call.
AfterReturn(cr, out) ==
    IF cr.idx >= cr.len
    THEN [cr EXCEPT !.pc = "returned", !.last = out, !.late = FALSE]
    ELSE [cr EXCEPT !.pc = "iter", !.idx = @ + 1, !.last = out, !.late = FALSE]

\* What request() returns on each of its return paths.
RetVal(out) ==
    CASE out \in {"hit", "sent"} -> "nil"
      [] out = "verr" -> "DataVersionError"
      [] out = "eof" -> "io.EOF"
      [] OTHER -> "none"

\* PrefetchAfterBlockRetrieved starts `go func() { wg.Wait(); close(doneCh) }`
\* when a fan-out ran; PrefetchBlock starts nothing.
WaiterAfter(cr, w) ==
    IF cr.idx >= cr.len /\ cr.kind \in FanOutKinds
    THEN "waiting" ELSE w

TotalChildren == LET S[n \in 0..NumCalls] ==
                        IF n = 0 THEN 0 ELSE S[n - 1] + call[n].len
                 IN S[NumCalls]


\* ---- PrefetchAfterBlockRetrieved / PrefetchBlock: dispatch ----

\* Mutant of StartLeaf: the channel is returned without close(doneCh).
StartLeaf_NoClose(c) ==
    /\ ~panicked
    /\ call[c].pc = "idle"
    /\ \E v \in BlockVariants, isInd \in BOOLEAN :
         /\ v = "CommonBlock" \/ (v = "FileBlock" /\ ~isInd)
         /\ call' = [call EXCEPT ![c] =
                      [IdleCall EXCEPT !.pc = "returned", !.kind = "Leaf"]]
    /\ retDoneCh' = [retDoneCh EXCEPT ![c] = "open"]
    /\ UNCHANGED <<storerVars, againVars, resolveVars, queueVars, configVars,
                   cache, engineVars, slot, priority, reqWg, waiterPc,
                   trkVars, shutPc>>

\* A direct FileBlock or a block of another variant: close(doneCh), return.
StartLeaf(c) ==
    /\ ~panicked
    /\ call[c].pc = "idle"
    /\ \E v \in BlockVariants, isInd \in BOOLEAN :
         /\ v = "CommonBlock" \/ (v = "FileBlock" /\ ~isInd)
         /\ call' = [call EXCEPT ![c] =
                      [IdleCall EXCEPT !.pc = "returned", !.kind = "Leaf"]]
    /\ retDoneCh' = [retDoneCh EXCEPT ![c] = "closed"]
    /\ UNCHANGED <<storerVars, againVars, resolveVars, queueVars, configVars,
                   cache, engineVars, slot, priority, reqWg, waiterPc,
                   trkVars, shutPc>>

\* Mutant of StartFanOut: the goroutine that closes the channel is started
\* only when the block has entries.
StartFanOut_NoWaiter(c) ==
    /\ ~panicked
    /\ call[c].pc = "idle"
    /\ \E v \in BlockVariants, isInd \in BOOLEAN, n \in 0..MaxChildren :
         /\ (v = "FileBlock" /\ isInd) \/ v = "DirBlock"
         /\ TotalChildren + n <= MaxRequests
         /\ call' = [call EXCEPT ![c] =
                [pc |-> IF n = 0 THEN "returned" ELSE "iter",
                 kind |-> IF isInd THEN "Indirect" ELSE "DirDirect",
                 len |-> n,
                 start |-> calculatePriority(
                             IF isInd THEN fileIndirectBlockPrefetchPriority
                             ELSE dirEntryPrefetchPriority, syncedTlf),
                 idx |-> IF n = 0 THEN 0 ELSE 1, last |-> "none",
                 late |-> FALSE]]
         /\ reqWg' = [reqWg EXCEPT ![c] = n]
    /\ retDoneCh' = [retDoneCh EXCEPT ![c] = "open"]
    /\ UNCHANGED <<storerVars, againVars, resolveVars, queueVars, configVars,
                   cache, engineVars, slot, priority, waiterPc, trkVars,
                   shutPc>>

\* An indirect File/Dir block or a direct Dir block with n entries:
\* wg.Add(n), then the loop over the entries.  With n = 0 the loop body
\* never runs and the call returns after starting the waiting goroutine.
StartFanOut(c) ==
    /\ ~panicked
    /\ call[c].pc = "idle"
    /\ \E v \in BlockVariants, isInd \in BOOLEAN, n \in 0..MaxChildren :
         /\ (v = "FileBlock" /\ isInd) \/ v = "DirBlock"
         /\ TotalChildren + n <= MaxRequests
         /\ call' = [call EXCEPT ![c] =
                [pc |-> IF n = 0 THEN "returned" ELSE "iter",
                 kind |-> IF isInd THEN "Indirect" ELSE "DirDirect",
                 len |-> n,
                 start |-> calculatePriority(
                             IF isInd THEN fileIndirectBlockPrefetchPriority
                             ELSE dirEntryPrefetchPriority, syncedTlf),
                 idx |-> IF n = 0 THEN 0 ELSE 1, last |-> "none",
                 late |-> FALSE]]
         /\ reqWg' = [reqWg EXCEPT ![c] = n]
         /\ waiterPc' = [waiterPc EXCEPT ![c] = IF n = 0 THEN "waiting" ELSE @]
    /\ retDoneCh' = [retDoneCh EXCEPT ![c] = "open"]
    /\ UNCHANGED <<storerVars, againVars, resolveVars, queueVars, configVars,
                   cache, engineVars, slot, priority, trkVars, shutPc>>

\* Mutant of StartPrefetchBlock: the priority goes through
\* calculatePriority.
StartPrefetchBlock_Calculated(c) ==
    /\ ~panicked
    /\ call[c].pc = "idle"
    /\ TotalChildren + 1 <= MaxRequests
    /\ \E pri \in PrefetchPriorities :
         call' = [call EXCEPT ![c] =
                [pc |-> "iter", kind |-> "PrefetchBlock", len |-> 1,
                 start |-> calculatePriority(pri, syncedTlf), idx |-> 1,
                 last |-> "none", late |-> FALSE]]
    /\ reqWg' = [reqWg EXCEPT ![c] = 1]
    /\ UNCHANGED <<storerVars, againVars, resolveVars, queueVars, configVars,
                   cache, engineVars, slot, priority,
                   retDoneCh, waiterPc, trkVars, shutPc>>

\* PrefetchBlock: a local WaitGroup with Add(1) and one request().
StartPrefetchBlock(c) ==
    /\ ~panicked
    /\ call[c].pc = "idle"
    /\ TotalChildren + 1 <= MaxRequests
    /\ \E pri \in PrefetchPriorities :
         call' = [call EXCEPT ![c] =
                [pc |-> "iter", kind |-> "PrefetchBlock", len |-> 1,
                 start |-> pri, idx |-> 1, last |-> "none", late |-> FALSE]]
    /\ reqWg' = [reqWg EXCEPT ![c] = 1]
    /\ UNCHANGED <<storerVars, againVars, resolveVars, queueVars, configVars,
                   cache, engineVars, slot, priority, retDoneCh, waiterPc,
                   trkVars, shutPc>>

\* ---- one iteration of the fan-out loop, up to request()'s select ----

Prefetchable(typ) == typ \in {"Dir", "File", "Exec"}

\* Mutant of IterSkipEntry: `continue` without wg.Done().
IterSkipEntry_NoDone(c, ptr) ==
    /\ call[c].kind = "DirDirect"
    /\ UNCHANGED <<slot, priority, reqWg>>
    /\ call' = [call EXCEPT ![c] = AfterReturn(@, "skip")]
    /\ waiterPc' = [waiterPc EXCEPT ![c] = WaiterAfter(call[c], @)]

\* prefetchDirectDirBlock, default branch of the switch on entry.Type:
\* wg.Done() and continue.
IterSkipEntry(c, ptr) ==
    /\ call[c].kind = "DirDirect"
    /\ UNCHANGED <<slot, priority>>
    /\ reqWg' = [reqWg EXCEPT ![c] = @ - 1]
    /\ call' = [call EXCEPT ![c] = AfterReturn(@, "skip")]
    /\ waiterPc' = [waiterPc EXCEPT ![c] = WaiterAfter(call[c], @)]

\* request(): the pointer is in the block cache: return nil.
RequestCacheHit(c, ptr) ==
    /\ ptr.ID \in cache
    /\ UNCHANGED <<slot, priority>>
    /\ call' = [call EXCEPT ![c] = AfterReturn(@, "hit")]
    /\ waiterPc' = [waiterPc EXCEPT ![c] = WaiterAfter(call[c], @)]
    /\ UNCHANGED reqWg

\* request(): checkDataVersion fails: return the error.
RequestBadVersion(c, ptr) ==
    /\ ptr.ID \notin cache
    /\ ~checkDataVersion(ptr)
    /\ UNCHANGED <<slot, priority>>
    /\ call' = [call EXCEPT ![c] = AfterReturn(@, "verr")]
    /\ waiterPc' = [waiterPc EXCEPT ![c] = WaiterAfter(call[c], @)]
    /\ UNCHANGED reqWg

\* Mutant of RequestAdmit: the cache is not consulted.
RequestAdmit_NoCacheCheck(c, pri, ptr) ==
    /\ checkDataVersion(ptr)
    /\ slot' = [slot EXCEPT ![CurSlot(c)] = ptr.ID]
    /\ priority' = [priority EXCEPT ![CurSlot(c)] = pri]
    /\ call' = [call EXCEPT ![c] = [@ EXCEPT !.pc = "select",
                                              !.late = (shutdownCh = "closed")]]
    /\ UNCHANGED <<reqWg, waiterPc>>

\* request(): both checks passed, the caller reaches the select.
RequestAdmit(c, pri, ptr) ==
    /\ ptr.ID \notin cache
    /\ checkDataVersion(ptr)
    /\ slot' = [slot EXCEPT ![CurSlot(c)] = ptr.ID]
    /\ priority' = [priority EXCEPT ![CurSlot(c)] = pri]
    /\ call' = [call EXCEPT ![c] = [@ EXCEPT !.pc = "select",
                                              !.late = (shutdownCh = "closed")]]
    /\ UNCHANGED <<reqWg, waiterPc>>

CallIter(c) ==
    /\ ~panicked
    /\ call[c].pc = "iter"
    /\ \E ptr \in BlockPointer, typ \in EntryTypes :
         /\ call[c].kind # "DirDirect" => typ = "File"
         /\ IF call[c].kind = "DirDirect" /\ ~Prefetchable(typ)
            THEN IterSkipEntry(c, ptr)
            ELSE LET pri == IF call[c].kind = "PrefetchBlock"
                            THEN call[c].start
                            ELSE childPriority(call[c].start, call[c].idx - 1)
                 IN \/ RequestCacheHit(c, ptr)
                    \/ RequestBadVersion(c, ptr)
                    \/ RequestAdmit(c, pri, ptr)
    /\ UNCHANGED <<storerVars, againVars, resolveVars, queueVars, configVars,
                   cache, engineVars, retDoneCh, trkVars, shutPc>>

\* ---- request(): select { progressCh <- req ; <-shutdownCh } ----

\* The run loop is parked in its select: the send completes at once.
ReqSend(c) ==
    /\ ~panicked
    /\ call[c].pc = "select"
    /\ runPc = "parked"
    /\ runPc' = "issue"
    /\ runReq' = CurSlot(c)
    /\ call' = [call EXCEPT ![c] = AfterReturn(@, "sent")]
    /\ waiterPc' = [waiterPc EXCEPT ![c] = WaiterAfter(call[c], @)]
    /\ UNCHANGED <<storerVars, againVars, resolveVars, queueVars, configVars,
                   cache, shutdownCh, doneCh, panicked, wg, sendq,
                   slot, priority, reqWg, retDoneCh, trkVars, shutPc>>

\* Mutant of ReqShutdown: the select of request() has no shutdown case.
ReqShutdown_NoCase(c) ==
    /\ FALSE
    /\ UNCHANGED vars

\* shutdownCh is closed: return the wrapped io.EOF.
ReqShutdown(c) ==
    /\ ~panicked
    /\ call[c].pc = "select"
    /\ shutdownCh = "closed"
    /\ call' = [call EXCEPT ![c] = AfterReturn(@, "eof")]
    /\ waiterPc' = [waiterPc EXCEPT ![c] = WaiterAfter(call[c], @)]
    /\ UNCHANGED <<storerVars, againVars, resolveVars, queueVars, configVars,
                   cache, engineVars, slot, priority, reqWg, retDoneCh,
                   trkVars, shutPc>>

\* No case is ready: the caller parks on both channels.
ReqPark(c) ==
    /\ ~panicked
    /\ call[c].pc = "select"
    /\ runPc # "parked"
    /\ shutdownCh = "open"
    /\ call' = [call EXCEPT ![c].pc = "parked"]
    /\ sendq' = Append(sendq, c)
    /\ UNCHANGED <<storerVars, againVars, resolveVars, queueVars, configVars,
                   cache, shutdownCh, doneCh, panicked, runPc,
                   runReq, wg, slot, priority, reqWg, retDoneCh, waiterPc, trkVars, shutPc>>

\* ---- run(): select { req := <-progressCh ; <-shutdownCh } ----

\* Mutant of RunRecv: the sender is left waiting in the queue, so the same
\* request is received again.
RunRecv_NoDequeue ==
    /\ ~panicked
    /\ runPc = "select"
    /\ sendq # <<>>
    /\ runReq' = CurSlot(Head(sendq))
    /\ runPc' = "issue"
    /\ UNCHANGED <<storerVars, againVars, resolveVars, queueVars, configVars,
                   cache, shutdownCh, doneCh, panicked, wg, sendq,
                   callVars, trkVars, shutPc>>

\* A sender is parked: receive its request.
RunRecv ==
    /\ ~panicked
    /\ runPc = "select"
    /\ sendq # <<>>
    /\ LET c == Head(sendq) IN
         /\ runReq' = CurSlot(c)
         /\ call' = [call EXCEPT ![c] = AfterReturn(@, "sent")]
         /\ waiterPc' = [waiterPc EXCEPT ![c] = WaiterAfter(call[c], @)]
    /\ sendq' = Tail(sendq)
    /\ runPc' = "issue"
    /\ UNCHANGED <<storerVars, againVars, resolveVars, queueVars, configVars,
                   cache, shutdownCh, doneCh, panicked, wg, slot, priority,
                   reqWg, retDoneCh, trkVars, shutPc>>

\* Mutant of RunShutdown: run() returns without its deferred function.
RunShutdown_NoDefer ==
    /\ ~panicked
    /\ runPc = "select"
    /\ shutdownCh = "closed"
    /\ runPc' = "exit"
    /\ UNCHANGED <<storerVars, againVars, resolveVars, queueVars, configVars,
                   cache, shutdownCh, doneCh, panicked,
                   runReq, wg, sendq, callVars, trkVars, shutPc>>

\* shutdownCh is closed: return from the loop (to the deferred function).
RunShutdown ==
    /\ ~panicked
    /\ runPc = "select"
    /\ shutdownCh = "closed"
    /\ runPc' = "wait"
    /\ UNCHANGED <<storerVars, againVars, resolveVars, queueVars, configVars,
                   cache, shutdownCh, doneCh, panicked, runReq, wg,
                   sendq, callVars, trkVars, shutPc>>

\* No case is ready: the run loop parks.
RunPark ==
    /\ ~panicked
    /\ runPc = "select"
    /\ sendq = <<>>
    /\ shutdownCh = "open"
    /\ runPc' = "parked"
    /\ UNCHANGED <<storerVars, againVars, resolveVars, queueVars, configVars,
                   cache, shutdownCh, doneCh, panicked, runReq, wg,
                   sendq, callVars, trkVars, shutPc>>

\* errCh := p.retriever.Request(...); wg.Add(1); go func() {...}()
RunIssue ==
    /\ ~panicked
    /\ runPc = "issue"
    /\ errCh' = [errCh EXCEPT ![runReq] = "pending"]
    /\ nRequest' = [nRequest EXCEPT ![runReq] = @ + 1]
    /\ wg' = wg + 1
    /\ trk' = [trk EXCEPT ![runReq] = "select"]
    /\ runReq' = NoSlot
    /\ runPc' = "select"
    /\ UNCHANGED <<storerVars, againVars, resolveVars, queueVars, configVars,
                   cache, shutdownCh, doneCh, panicked, sendq,
                   callVars, shutPc>>

\* Mutant of RunCloseDone: close(p.doneCh) without wg.Wait().
RunCloseDone_NoWait ==
    /\ ~panicked
    /\ runPc = "wait"
    /\ IF doneCh = "closed"
       THEN panicked' = TRUE /\ UNCHANGED doneCh
       ELSE doneCh' = "closed" /\ UNCHANGED panicked
    /\ runPc' = "exit"
    /\ UNCHANGED <<storerVars, againVars, resolveVars, queueVars, configVars,
                   cache, shutdownCh, runReq, wg, sendq, callVars,
                   trkVars, shutPc>>

\* The deferred function of run(): wg.Wait(); close(p.doneCh).
RunCloseDone ==
    /\ ~panicked
    /\ runPc = "wait"
    /\ wg = 0
    /\ IF doneCh = "closed"
       THEN panicked' = TRUE /\ UNCHANGED doneCh
       ELSE doneCh' = "closed" /\ UNCHANGED panicked
    /\ runPc' = "exit"
    /\ UNCHANGED <<storerVars, againVars, resolveVars, queueVars, configVars,
                   cache, shutdownCh, runReq, wg, sendq, callVars,
                   trkVars, shutPc>>


\* ---- the tracking goroutine of one accepted request ----

\* select, case err := <-errCh: the retriever has delivered.
TrackerRecv(s) ==
    /\ ~panicked
    /\ trk[s] = "select"
    /\ errCh[s] \in {"ok", "err"}
    /\ errCh' = [errCh EXCEPT ![s] = "taken"]
    /\ trk' = [trk EXCEPT ![s] = "got"]
    /\ UNCHANGED <<storerVars, againVars, resolveVars, queueVars, configVars,
                   cache, engineVars, callVars, nRequest, shutPc>>

\* Mutant of TrackerShutdown: cancel() without the `<-errCh` that follows.
TrackerShutdown_NoDrain(s) ==
    /\ ~panicked
    /\ trk[s] = "select"
    /\ shutdownCh = "closed"
    /\ trk' = [trk EXCEPT ![s] = "drained"]
    /\ UNCHANGED <<storerVars, againVars, resolveVars, queueVars, configVars,
                   cache, engineVars, callVars, errCh, nRequest,
                   shutPc>>

\* select, case <-p.shutdownCh: cancel(), then wait on errCh.
TrackerShutdown(s) ==
    /\ ~panicked
    /\ trk[s] = "select"
    /\ shutdownCh = "closed"
    /\ trk' = [trk EXCEPT ![s] = "cancelled"]
    /\ UNCHANGED <<storerVars, againVars, resolveVars, queueVars, configVars,
                   cache, engineVars, callVars, errCh, nRequest,
                   shutPc>>

\* <-errCh after cancel().
TrackerDrain(s) ==
    /\ ~panicked
    /\ trk[s] = "cancelled"
    /\ errCh[s] \in {"ok", "err"}
    /\ errCh' = [errCh EXCEPT ![s] = "taken"]
    /\ trk' = [trk EXCEPT ![s] = "drained"]
    /\ UNCHANGED <<storerVars, againVars, resolveVars, queueVars, configVars,
                   cache, engineVars, callVars, nRequest, shutPc>>

\* Mutant of TrackerReqDone: no req.wg.Done() on the shutdown path.
TrackerReqDone_NotAfterShutdown(s) ==
    /\ ~panicked
    /\ trk[s] \in {"got", "drained"}
    /\ reqWg' = IF trk[s] = "got" THEN [reqWg EXCEPT ![s[1]] = @ - 1]
                ELSE reqWg
    /\ trk' = [trk EXCEPT ![s] = "deferred"]
    /\ UNCHANGED <<storerVars, againVars, resolveVars, queueVars, configVars,
                   cache, engineVars, call, slot,
                   priority, retDoneCh, waiterPc, errCh, nRequest, shutPc>>

\* req.wg.Done()
TrackerReqDone(s) ==
    /\ ~panicked
    /\ trk[s] \in {"got", "drained"}
    /\ reqWg' = [reqWg EXCEPT ![s[1]] = @ - 1]
    /\ trk' = [trk EXCEPT ![s] = "deferred"]
    /\ UNCHANGED <<storerVars, againVars, resolveVars, queueVars, configVars,
                   cache, engineVars, call, slot, priority, retDoneCh,
                   waiterPc, errCh, nRequest, shutPc>>

\* Mutant of TrackerExit: the deferred wg.Done() is missing.
TrackerExit_NoDone(s) ==
    /\ ~panicked
    /\ trk[s] = "deferred"
    /\ trk' = [trk EXCEPT ![s] = "fin"]
    /\ UNCHANGED <<storerVars, againVars, resolveVars, queueVars, configVars,
                   cache, engineVars, callVars, errCh, nRequest,
                   shutPc>>

\* The deferred calls: cancel(), wg.Done().
TrackerExit(s) ==
    /\ ~panicked
    /\ trk[s] = "deferred"
    /\ wg' = wg - 1
    /\ trk' = [trk EXCEPT ![s] = "fin"]
    /\ UNCHANGED <<storerVars, againVars, resolveVars, queueVars, configVars,
                   cache, shutdownCh, doneCh, panicked, runPc,
                   runReq, sendq, callVars, errCh, nRequest, shutPc>>

\* ---- the goroutine started by PrefetchAfterBlockRetrieved ----

\* Mutant of WaiterClose: close(doneCh) without wg.Wait().
WaiterClose_NoWait(c) ==
    /\ ~panicked
    /\ waiterPc[c] = "waiting"
    /\ retDoneCh' = [retDoneCh EXCEPT ![c] = "closed"]
    /\ waiterPc' = [waiterPc EXCEPT ![c] = "done"]
    /\ UNCHANGED <<storerVars, againVars, resolveVars, queueVars, configVars,
                   cache, engineVars, call, slot, priority, reqWg, trkVars,
                   shutPc>>

\* wg.Wait(); close(doneCh)
WaiterClose(c) ==
    /\ ~panicked
    /\ waiterPc[c] = "waiting"
    /\ reqWg[c] = 0
    /\ retDoneCh' = [retDoneCh EXCEPT ![c] = "closed"]
    /\ waiterPc' = [waiterPc EXCEPT ![c] = "done"]
    /\ UNCHANGED <<storerVars, againVars, resolveVars, queueVars, configVars,
                   cache, engineVars, call, slot, priority, reqWg, trkVars,
                   shutPc>>

\* ---- Shutdown() ----

\* Mutant of CloseShutdownCh: the callers parked in request() stay queued on
\* progressCh.
CloseShutdownCh_SendersStay ==
    /\ shutdownCh' = "closed"
    /\ runPc' = IF runPc = "parked" THEN "wait" ELSE runPc
    /\ UNCHANGED <<sendq, call, waiterPc>>

\* The effect of close(p.shutdownCh) on the goroutines parked on it: the run
\* loop returns from its loop, every parked request() returns the error.
CloseShutdownCh ==
    /\ shutdownCh' = "closed"
    /\ runPc' = IF runPc = "parked" THEN "wait" ELSE runPc
    /\ sendq' = <<>>
    /\ call' = [c \in Calls |->
                  IF call[c].pc = "parked" THEN AfterReturn(call[c], "eof")
                  ELSE call[c]]
    /\ waiterPc' = [c \in Calls |->
                  IF call[c].pc = "parked" THEN WaiterAfter(call[c], waiterPc[c])
                  ELSE waiterPc[c]]

\* select { case <-p.shutdownCh: default: ... }: the check.
ShutdownCheck(k) ==
    /\ ~panicked
    /\ shutPc[k] = "idle"
    /\ shutPc' = [shutPc EXCEPT ![k] =
                    IF shutdownCh = "closed" THEN "returned" ELSE "close"]
    /\ UNCHANGED <<storerVars, againVars, resolveVars, queueVars, configVars,
                   cache, engineVars, callVars, trkVars>>

\* Shutdown() called while no other Shutdown() call is between its check
\* and its close.
ShutdownSelect(k) ==
    /\ \A j \in ShutdownCalls : shutPc[j] # "close"
    /\ ShutdownCheck(k)

\* Shutdown() called from a goroutine of its own, whatever the others do.
ShutdownSelectConcurrent(k) ==
    /\ \E j \in ShutdownCalls : shutPc[j] = "close"
    /\ ShutdownCheck(k)

\* default: close(p.shutdownCh); return p.doneCh
ShutdownClose(k) ==
    /\ ~panicked
    /\ shutPc[k] = "close"
    /\ shutPc' = [shutPc EXCEPT ![k] = "returned"]
    /\ IF shutdownCh = "closed"
       THEN /\ panicked' = TRUE
            /\ UNCHANGED <<shutdownCh, runPc, sendq, call, waiterPc>>
       ELSE /\ CloseShutdownCh
            /\ UNCHANGED panicked
    /\ UNCHANGED <<storerVars, againVars, resolveVars, queueVars, configVars,
                   cache, doneCh, runReq, wg, slot, priority, reqWg,
                   retDoneCh, trkVars>>

\* ---- environment: the retriever and the block cache ----

\* The retriever delivers the one value of a channel it returned; on success
\* the retrieval layer has stored the block in the cache.
RetrieverDeliver(s) ==
    /\ ~panicked
    /\ errCh[s] = "pending"
    /\ \E v \in {"ok", "err"} :
         /\ errCh' = [errCh EXCEPT ![s] = v]
         /\ cache' = IF v = "ok" THEN cache \cup {slot[s]} ELSE cache
    /\ UNCHANGED <<storerVars, againVars, resolveVars, queueVars, configVars,
                   engineVars, callVars, trk, nRequest, shutPc>>

\* Another retrieval stores a block (BlockCache.Put by the retrieval layer).
CachePut(id) ==
    /\ ~panicked
    /\ id \notin cache
    /\ cache' = cache \cup {id}
    /\ UNCHANGED <<storerVars, againVars, resolveVars, queueVars, configVars,
                   engineVars, callVars, trkVars, shutPc>>

\* BlockCache.DeleteTransient, allowed at any time.
DeleteTransient(id) ==
    /\ ~panicked
    /\ id \in cache
    /\ cache' = cache \ {id}
    /\ UNCHANGED <<storerVars, againVars, resolveVars, queueVars, configVars,
                   engineVars, callVars, trkVars, shutPc>>

\* ---- specifications ----

Next ==
    \/ \E c \in Calls : StartLeaf(c)
    \/ \E c \in Calls : StartFanOut(c)
    \/ \E c \in Calls : StartPrefetchBlock(c)
    \/ \E c \in Calls : CallIter(c)
    \/ \E c \in Calls : ReqSend(c)
    \/ \E c \in Calls : ReqShutdown(c)
    \/ \E c \in Calls : ReqPark(c)
    \/ RunRecv
    \/ RunShutdown
    \/ RunPark
    \/ RunIssue
    \/ RunCloseDone
    \/ \E s \in Slots : TrackerRecv(s)
    \/ \E s \in Slots : TrackerShutdown(s)
    \/ \E s \in Slots : TrackerDrain(s)
    \/ \E s \in Slots : TrackerReqDone(s)
    \/ \E s \in Slots : TrackerExit(s)
    \/ \E c \in Calls : WaiterClose(c)
    \/ \E k \in ShutdownCalls : ShutdownSelect(k)
    \/ \E k \in ShutdownCalls : ShutdownClose(k)
    \/ \E s \in Slots : RetrieverDeliver(s)
    \/ \E id \in IDs : CachePut(id)
    \/ \E id \in IDs : DeleteTransient(id)

\* Shutdown() calls follow one another.
Spec == Init /\ [][Next]_vars

\* Shutdown() calls may also overlap.
NextConcurrent == Next \/ \E k \in ShutdownCalls : ShutdownSelectConcurrent(k)

SpecConcurrent == Init /\ [][NextConcurrent]_vars

\* ---- fairness: every goroutine is scheduled, every retriever channel ----
\* ---- eventually delivers its value                                    ----

RunLoop == RunRecv \/ RunShutdown \/ RunPark \/ RunIssue \/ RunCloseDone

Tracker(s) ==
    \/ TrackerRecv(s)
    \/ TrackerShutdown(s)
    \/ TrackerDrain(s)
    \/ TrackerReqDone(s)
    \/ TrackerExit(s)

Caller(c) == CallIter(c) \/ ReqSend(c) \/ ReqShutdown(c) \/ ReqPark(c)

Fairness ==
    /\ WF_vars(RunLoop)
    /\ \A s \in Slots : WF_vars(Tracker(s))
    /\ \A s \in Slots : WF_vars(RetrieverDeliver(s))
    /\ \A c \in Calls : WF_vars(Caller(c))
    /\ \A c \in Calls : WF_vars(WaiterClose(c))
    /\ \A k \in ShutdownCalls : WF_vars(ShutdownClose(k))

LiveSpec == Init /\ [][Next]_vars /\ Fairness

\* LiveSpec for a folder that is not synced: the priorities, the only thing
\* the sync state changes, play no part in what is scheduled.
InitUnsynced == Init /\ ~syncedTlf

LiveSpecUnsynced == InitUnsynced /\ [][Next]_vars /\ Fairness

\* ---- RetrievalSpec: the blocks ----

\* The other variables of the prefetcher, which RetrievalSpec leaves alone:
\* it describes the run loop and the tracking goroutines by their effect on
\* shutdownCh, doneCh and wg.
prefetcherOnlyVars == <<configVars, cache, panicked, runPc, runReq, sendq,
                        callVars, trkVars, shutPc>>

TransientEntry == "TransientEntry"

\* The order of the IPtrs of an indirect root block.
SourceOrder == <<"a", "b">>

ParentOf(b) == IF b = "d" THEN "b" ELSE "root"

\* Block "b" is a directory block when its entry in the root says so.
IsDirB == ~tree.isInd /\ "b" \in tree.kids /\ tree.typ["b"] = "Dir"

IsIndBlock(p) == p = "root" /\ tree.isInd

\* The blocks that take a fan-out path in PrefetchAfterBlockRetrieved: the
\* root (an indirect block or a direct directory) and "b" as a directory.
\* The others are direct file blocks.
HasFanOut(p) == p = "root" \/ (p = "b" /\ IsDirB)

ChildrenOf(p) ==
    CASE p = "root" -> tree.kids
      [] p = "b" /\ IsDirB -> {"d"}
      [] OTHER -> {}

EntryType(p, e) == IF p = "root" THEN tree.typ[e] ELSE "File"
EntrySize(p, e) == IF p = "root" THEN tree.size[e] ELSE 1

\* The lists without repetition of the elements of S.
SeqsOf(S) ==
    {f \in [1..Cardinality(S) -> S] :
        \A i, j \in 1..Cardinality(S) : i # j => f[i] # f[j]}

Range(list) == {list[i] : i \in DOMAIN list}

\* dirEntryMapToDirEntries: the entries of the Children map in the order the
\* map iteration yields them, which is any order.
dirEntryMapToDirEntries(p) == SeqsOf(ChildrenOf(p))

\* dirEntriesBySizeAsc.Less
Less(p, x, y) == EntrySize(p, x) < EntrySize(p, y)

\* Mutant of SortBySizeAsc: the list is used as the map iteration gave it.
SortBySizeAsc_NoSort(p, list) == {list}

\* sort.Sort(dirEntries): the orders of the list that Less allows (entries of
\* equal size in any order).
SortBySizeAsc(p, list) ==
    {s \in SeqsOf(Range(list)) :
        \A i, j \in DOMAIN s : i < j => ~Less(p, s[j], s[i])}

IPtrs(p) == SelectSeq(SourceOrder, LAMBDA e : e \in ChildrenOf(p))

\* The lists a fan-out over block p may go through.
FanOutLists(p) ==
    IF IsIndBlock(p) THEN {IPtrs(p)}
    ELSE UNION {SortBySizeAsc(p, l) : l \in dirEntryMapToDirEntries(p)}

PosOf(list, e) == CHOOSE i \in DOMAIN list : list[i] = e

BasePriority(p) ==
    IF IsIndBlock(p) THEN fileIndirectBlockPrefetchPriority
    ELSE dirEntryPrefetchPriority

\* request() is called for entry e of block p: always for an indirect
\* pointer, for a directory entry when its type is Dir, File or Exec.
Requested(p, e) == IsIndBlock(p) \/ Prefetchable(EntryType(p, e))

\* request() hands the child to the run loop: not cached, not shut down.
Accepted(p, e) ==
    /\ Requested(p, e)
    /\ ~bcache[e].present
    /\ shutdownCh = "open"

\* blockRetrievalQueue.Request for a pointer: a new retrieval, or the one
\* already queued for the pointer, at the higher of the two priorities; n is
\* 1 when the request comes from the prefetcher's run loop, which then has a
\* tracking goroutine wait for the retrieval.
Join(r, pri, lt, n) ==
    [active |-> TRUE,
     priority |-> IF r.active /\ r.priority > pri THEN r.priority ELSE pri,
     lifetime |-> lt,
     waiters |-> r.waiters + n]

\* ---- RetrievalSpec: one fan-out of PrefetchAfterBlockRetrieved ----

StartingPriority(p) == calculatePriority(BasePriority(p), syncedTlf)

\* Mutant of RoundRetrieval: the fan-out also descends into the entry "d" of
\* a listed directory "b".
RoundRetrieval_Deep(p, list, base) ==
    [b \in Blocks |->
        IF b \in Range(list) /\ Accepted(p, b)
        THEN Join(base[b],
                  childPriority(StartingPriority(p), PosOf(list, b) - 1),
                  TransientEntry, 1)
        ELSE IF b = "d" /\ IsDirB /\ "b" \in Range(list) /\ Accepted(p, "b")
        THEN Join(base[b], childPriority(StartingPriority(p), Len(list)),
                  TransientEntry, 1)
        ELSE base[b]]

\* The queue after the fan-out over list: every accepted child has a
\* retrieval, requested by the run loop with the child's priority and
\* TransientEntry.
RoundRetrieval(p, list, base) ==
    [b \in Blocks |->
        IF b \in Range(list) /\ Accepted(p, b)
        THEN Join(base[b],
                  childPriority(StartingPriority(p), PosOf(list, b) - 1),
                  TransientEntry, 1)
        ELSE base[b]]

NumAccepted(p, list) == Cardinality({e \in Range(list) : Accepted(p, e)})

\* wg.Add(len(list)) and the wg.Done() of the skipped entries; request()
\* decrements nothing.
RoundCounter(p, list) ==
    Len(list) - Cardinality({e \in Range(list) : ~Requested(p, e)})

\* The request() calls of the fan-out, in the order of the loop.
RoundRequests(p, list) ==
    LET all == [i \in DOMAIN list |->
                   [blk |-> list[i],
                    priority |-> childPriority(StartingPriority(p), i - 1)]]
    IN SelectSeq(all, LAMBDA r : Requested(p, r.blk))

\* ---- RetrievalSpec: the retrieval queue ----

\* Mutant of TriggersPrefetch: hasPrefetched is not looked at.
TriggersPrefetch_Repeat(pri, hasPref) ==
    syncedTlf \/ pri >= defaultOnDemandRequestPriority

\* Mutant of TriggersPrefetch: every retrieval starts a prefetch round.
TriggersPrefetch_Always(pri, hasPref) == ~hasPref

\* CacheAndPrefetch starts a prefetch round for a block that has not had one
\* when the request is on demand (or of a higher priority) or the folder is
\* synced.
TriggersPrefetch(pri, hasPref) ==
    ~hasPref /\ (syncedTlf \/ pri >= defaultOnDemandRequestPriority)

\* Mutant of CachedEntry: the flag is left as it was.
CachedEntry_FlagKept(pri, lt, hasPref) ==
    [present |-> TRUE, hasPrefetched |-> hasPref, lifetime |-> lt]

\* The entry CacheAndPrefetch puts in the cache: hasPrefetched is set when
\* the block had a prefetch round before or gets one now.
CachedEntry(pri, lt, hasPref) ==
    [present |-> TRUE,
     hasPrefetched |-> hasPref \/ TriggersPrefetch(pri, hasPref),
     lifetime |-> lt]

\* CacheAndPrefetch for block b, on top of the queue `base` and the counters
\* w and cw: the block is stored, and when a round is due the prefetcher's
\* PrefetchAfterBlockRetrieved runs over list.
CacheAndPrefetch(b, pri, lt, hasPref, list, base, w, cw) ==
    LET round == TriggersPrefetch(pri, hasPref) /\ HasFanOut(b) IN
    /\ bcache' = [bcache EXCEPT ![b] = CachedEntry(pri, lt, hasPref)]
    /\ retrieval' = IF round THEN RoundRetrieval(b, list, base) ELSE base
    /\ wg' = IF round THEN w + NumAccepted(b, list) ELSE w
    /\ childWg' = IF round
                  THEN [cw EXCEPT ![b] = @ + RoundCounter(b, list)]
                  ELSE cw
    /\ lastRound' = IF round
                    THEN [parent |-> b, reqs |-> RoundRequests(b, list)]
                    ELSE lastRound
    /\ nRound' = IF TriggersPrefetch(pri, hasPref)
                 THEN [nRound EXCEPT ![b] = @ + 1]
                 ELSE nRound

ExistingBlocks == {"root"} \cup tree.kids \cup ChildrenOf("b")

IsDemand(r) == r.priority >= defaultOnDemandRequestPriority

\* q.Request(ctx, defaultOnDemandRequestPriority, kmd, ptr, block,
\* TransientEntry): a cached block is returned at once, through
\* CacheAndPrefetch with the flag of its entry; otherwise the request joins
\* the queue.
OnDemandRequest(b) ==
    /\ b \in ExistingBlocks
    /\ nDemand < MaxDemand
    /\ nDemand' = nDemand + 1
    /\ IF bcache[b].present
       THEN /\ \E list \in FanOutLists(b) :
                 CacheAndPrefetch(b, defaultOnDemandRequestPriority,
                                  bcache[b].lifetime, bcache[b].hasPrefetched,
                                  list, retrieval, wg, childWg)
            /\ demanded' = [demanded EXCEPT ![b] = "nil"]
            /\ delivered' = [delivered EXCEPT
                               ![b] = IF @ = "nil" THEN "stale" ELSE @]
       ELSE /\ retrieval' = [retrieval EXCEPT ![b] =
                    Join(@, defaultOnDemandRequestPriority, TransientEntry, 0)]
            /\ UNCHANGED <<bcache, wg, childWg, lastRound, demanded,
                           delivered, nRound>>
    /\ UNCHANGED <<storerVars, againVars, resolveVars, prefetcherOnlyVars,
                   tree, shutdownCh, doneCh>>

\* The tracking goroutines of the requests waiting for retrieval r of block
\* b receive its value: req.wg.Done() and wg.Done() for each.
TrackersDone(b, r) ==
    [w |-> wg - r.waiters,
     cw |-> IF b = "root" THEN childWg
            ELSE [childWg EXCEPT ![ParentOf(b)] = @ - r.waiters]]

\* Mutant of RetrievalFails: the tracking goroutines do not count a failed
\* retrieval as done.
RetrievalFails_NotCounted(b) ==
    /\ retrieval[b].active
    /\ retrieval' = [retrieval EXCEPT ![b] = NoRetrieval]
    /\ demanded' = IF IsDemand(retrieval[b])
                   THEN [demanded EXCEPT ![b] = "err"] ELSE demanded
    /\ delivered' = IF retrieval[b].waiters > 0
                    THEN [delivered EXCEPT ![b] = "err"] ELSE delivered
    /\ UNCHANGED <<storerVars, againVars, resolveVars, prefetcherOnlyVars,
                   tree, nDemand, shutdownCh, doneCh,
                   bcache, lastRound, nRound, wg, childWg>>

\* The retrieval of block b fails (an error of the getter, or
\* context.Canceled): nothing is stored, every request gets the error.
RetrievalFails(b) ==
    /\ retrieval[b].active
    /\ LET r == retrieval[b] IN
         /\ retrieval' = [retrieval EXCEPT ![b] = NoRetrieval]
         /\ wg' = TrackersDone(b, r).w
         /\ childWg' = TrackersDone(b, r).cw
         /\ demanded' = IF IsDemand(r)
                        THEN [demanded EXCEPT ![b] = "err"] ELSE demanded
         /\ delivered' = IF r.waiters > 0
                         THEN [delivered EXCEPT ![b] = "err"] ELSE delivered
    /\ UNCHANGED <<storerVars, againVars, resolveVars, prefetcherOnlyVars,
                   tree, nDemand, shutdownCh, doneCh,
                   bcache, lastRound, nRound>>

\* The retrieval of block b succeeds: CacheAndPrefetch with the priority and
\* lifetime of the retrieval, then every request gets nil.
RetrievalSucceeds(b) ==
    /\ retrieval[b].active
    /\ LET r == retrieval[b] IN
         /\ \E list \in FanOutLists(b) :
              CacheAndPrefetch(b, r.priority, r.lifetime, FALSE, list,
                               [retrieval EXCEPT ![b] = NoRetrieval],
                               TrackersDone(b, r).w, TrackersDone(b, r).cw)
         /\ demanded' = IF IsDemand(r)
                        THEN [demanded EXCEPT ![b] = "nil"] ELSE demanded
         /\ delivered' = IF r.waiters > 0
                         THEN [delivered EXCEPT
                                 ![b] = IF IsDemand(r) THEN "stale" ELSE "nil"]
                         ELSE delivered
    /\ UNCHANGED <<storerVars, againVars, resolveVars, prefetcherOnlyVars,
                   tree, nDemand, shutdownCh, doneCh>>

\* Prefetcher().Shutdown(): close(shutdownCh).
PrefetcherShutdown ==
    /\ shutdownCh = "open"
    /\ shutdownCh' = "closed"
    /\ UNCHANGED <<storerVars, againVars, resolveVars, prefetcherOnlyVars,
                   queueVars, doneCh, wg>>

\* The deferred function of run(): wg.Wait(); close(doneCh).
PrefetcherDone ==
    /\ shutdownCh = "closed"
    /\ doneCh = "open"
    /\ wg = 0
    /\ doneCh' = "closed"
    /\ UNCHANGED <<storerVars, againVars, resolveVars, prefetcherOnlyVars,
                   queueVars, shutdownCh, wg>>

\* BlockCache.DeleteTransient, or the eviction of a Transient entry.
CacheDeleteTransient(b) ==
    /\ bcache[b].present
    /\ bcache' = [bcache EXCEPT ![b] = NoEntry]
    /\ demanded' = [demanded EXCEPT ![b] = IF @ = "nil" THEN "stale" ELSE @]
    /\ delivered' = [delivered EXCEPT ![b] = IF @ = "nil" THEN "stale" ELSE @]
    /\ nRound' = [nRound EXCEPT ![b] = 0]
    /\ UNCHANGED <<storerVars, againVars, resolveVars, prefetcherOnlyVars,
                   tree, retrieval, childWg, lastRound,
                   nDemand, shutdownCh, doneCh, wg>>

\* q.TogglePrefetcher(ctx, true) once the prefetcher in use is done: a new
\* prefetcher, with open channels and no request.
TogglePrefetcher ==
    /\ doneCh = "closed"
    /\ shutdownCh' = "open"
    /\ doneCh' = "open"
    /\ UNCHANGED <<storerVars, againVars, resolveVars, prefetcherOnlyVars,
                   queueVars, wg>>

\* The root block: absent entries and the entries of an indirect block have
\* no type or size of their own.
RetrievalInit ==
    /\ PrefetcherInit
    /\ ~retrieverNil
    /\ cache = {}
    /\ tree \in [isInd : BOOLEAN, kids : SUBSET Kids,
                 typ : [Kids -> EntryTypes], size : [Kids -> 1..MaxSize]]
    /\ tree.typ["a"] \in {"File", "Sym"}
    /\ tree.typ["b"] \in {"Dir", "Sym"}
    /\ \A k \in Kids :
         (k \notin tree.kids \/ tree.isInd) =>
             /\ tree.size[k] = 1
             /\ tree.typ[k] = IF k = "a" THEN "File" ELSE "Dir"
    /\ EmptyQueue
    /\ NoResolution
    /\ NoResolveAgain
    /\ NoStorer

RetrievalNext ==
    \/ \E b \in Blocks : OnDemandRequest(b)
    \/ \E b \in Blocks : RetrievalSucceeds(b)
    \/ \E b \in Blocks : RetrievalFails(b)
    \/ PrefetcherShutdown
    \/ PrefetcherDone
    \/ \E b \in Blocks : CacheDeleteTransient(b)
    \/ TogglePrefetcher

RetrievalSpec == RetrievalInit /\ [][RetrievalNext]_vars

\* ---- makeTlfHandleHelper and resolveOneUser (ResolveSpec) ----

\* writers[0..], then readers[0..]: one resolveOneUser goroutine each.
Writers == 1..nWriters
Readers == (nWriters + 1)..(nWriters + nReaders)
NumUsers == nWriters + nReaders

\* The channel a goroutine sends its name/ID pair or social assertion to,
\* and its capacity: len(writers) for wc and uwc, len(readers) for rc, urc.
ResultChanOf(u, kind) ==
    IF u \in Writers
    THEN (IF kind = "pair" THEN "wc" ELSE "uwc")
    ELSE (IF kind = "pair" THEN "rc" ELSE "urc")
ResultChanCap(c) == IF c \in {"wc", "uwc"} THEN nWriters ELSE nReaders

\* The two checks on entry; then the context is derived, the channels are
\* made and one goroutine per writer and reader is started.
HelperEnter ==
    /\ helperPc = "entry"
    /\ IF tlfType # "Private" /\ nReaders > 0
       THEN /\ helperRet' = [h |-> NilHandle,
                             err |-> [kind |-> "readers", user |-> 0]]
            /\ helperPc' = "returned"
            /\ UNCHANGED resolverPc
       ELSE IF tlfType = "SingleTeam" /\ nWriters # 1
       THEN /\ helperRet' = [h |-> NilHandle,
                             err |-> [kind |-> "writers", user |-> 0]]
            /\ helperPc' = "returned"
            /\ UNCHANGED resolverPc
       ELSE /\ helperPc' = "select"
            /\ resolverPc' = [u \in Users |->
                                IF u <= NumUsers THEN "resolve" ELSE "none"]
            /\ UNCHANGED helperRet
    /\ UNCHANGED <<tlfType, nWriters, nReaders, resolved, resolveErrCh,
                   resultCh, helperI, used, ctxDone>>
    /\ UNCHANGED <<storerVars, againVars, prefetcherOnlyVars, queueVars,
                   shutdownCh, doneCh,
                   wg>>

\* user.resolve(ctx) returns.
UserResolve(u) ==
    /\ resolverPc[u] = "resolve"
    /\ \E r \in ResolveResults : resolved' = [resolved EXCEPT ![u] = r]
    /\ resolverPc' = [resolverPc EXCEPT ![u] = "send"]
    /\ UNCHANGED <<tlfType, nWriters, nReaders, resolveErrCh, resultCh,
                   helperPc, helperI, used, helperRet, ctxDone>>
    /\ UNCHANGED <<storerVars, againVars, prefetcherOnlyVars, queueVars,
                   shutdownCh, doneCh,
                   wg>>

\* The rest of resolveOneUser. An error is sent to errCh without blocking
\* and dropped when the buffer is full; a pair or an assertion is sent to
\* the buffered result channel; the empty result is sent to errCh with a
\* plain send, which parks the goroutine while the buffer is full.
UserSend(u) ==
    /\ resolverPc[u] = "send"
    /\ LET kind == resolved[u].kind
           c == ResultChanOf(u, kind)
           full == Len(resolveErrCh.buf) >= ErrChCap
       IN  CASE kind = "error" ->
                 /\ resolveErrCh' =
                        IF full THEN resolveErrCh
                        ELSE [resolveErrCh EXCEPT
                                !.buf = Append(@, [kind |-> "error", user |-> u])]
                 /\ resolverPc' = [resolverPc EXCEPT ![u] = "done"]
                 /\ UNCHANGED resultCh
              [] kind \in {"pair", "social"} ->
                 /\ Len(resultCh[c]) < ResultChanCap(c)
                 /\ resultCh' = [resultCh EXCEPT
                                   ![c] = Append(@, resolved[u].val)]
                 /\ resolverPc' = [resolverPc EXCEPT ![u] = "done"]
                 /\ UNCHANGED resolveErrCh
              [] kind = "empty" ->
                 /\ IF full
                    THEN /\ resolveErrCh' = [resolveErrCh EXCEPT
                                               !.sendq = Append(@, u)]
                         /\ resolverPc' = [resolverPc EXCEPT ![u] = "parked"]
                    ELSE /\ resolveErrCh' =
                              [resolveErrCh EXCEPT
                                 !.buf = Append(@, [kind |-> "empty", user |-> u])]
                         /\ resolverPc' = [resolverPc EXCEPT ![u] = "done"]
                 /\ UNCHANGED resultCh
    /\ UNCHANGED <<tlfType, nWriters, nReaders, resolved, helperPc, helperI,
                   used, helperRet, ctxDone>>
    /\ UNCHANGED <<storerVars, againVars, prefetcherOnlyVars, queueVars,
                   shutdownCh, doneCh,
                   wg>>

\* Mutant of HelperRecvErr: the error is counted as one more result and the
\* loop goes on.
HelperRecvErr_Continue ==
    /\ helperPc = "select"
    /\ helperI < NumUsers
    /\ Len(resolveErrCh.buf) > 0
    /\ helperI' = helperI + 1
    /\ resolveErrCh' = [resolveErrCh EXCEPT !.buf = Tail(@)]
    /\ UNCHANGED <<tlfType, nWriters, nReaders, resolverPc, resolved, resultCh,
                   helperPc, used, helperRet, ctxDone>>
    /\ UNCHANGED <<storerVars, againVars, prefetcherOnlyVars, queueVars,
                   shutdownCh, doneCh,
                   wg>>

\* case err := <-errCh: the helper returns the error; the deferred cancel()
\* closes ctx.Done(). The receive frees the buffer, and the first goroutine
\* parked in a send, if any, puts its value there and goes on.
HelperRecvErr ==
    /\ helperPc = "select"
    /\ helperI < NumUsers
    /\ Len(resolveErrCh.buf) > 0
    /\ helperRet' = [h |-> NilHandle, err |-> Head(resolveErrCh.buf)]
    /\ helperPc' = "returned"
    /\ ctxDone' = TRUE
    /\ IF resolveErrCh.sendq = <<>>
       THEN /\ resolveErrCh' = [resolveErrCh EXCEPT !.buf = Tail(@)]
            /\ UNCHANGED resolverPc
       ELSE LET u == Head(resolveErrCh.sendq)
            IN  /\ resolveErrCh' =
                      [buf |-> Append(Tail(resolveErrCh.buf),
                                      [kind |-> "empty", user |-> u]),
                       sendq |-> Tail(resolveErrCh.sendq)]
                /\ resolverPc' = [resolverPc EXCEPT ![u] = "done"]
    /\ UNCHANGED <<tlfType, nWriters, nReaders, resolved, resultCh, helperI,
                   used>>
    /\ UNCHANGED <<storerVars, againVars, prefetcherOnlyVars, queueVars,
                   shutdownCh, doneCh,
                   wg>>

\* The map a value received from channel c is stored in.
UsedFieldOf(c) ==
    CASE c = "wc" -> "usedWNames"
      [] c = "rc" -> "usedRNames"
      [] c = "uwc" -> "usedUnresolvedWriters"
      [] c = "urc" -> "usedUnresolvedReaders"

\* case userInfo := <-wc, <-rc; case socialAssertion := <-uwc, <-urc.
HelperRecvResult(c) ==
    /\ helperPc = "select"
    /\ helperI < NumUsers
    /\ Len(resultCh[c]) > 0
    /\ used' = [used EXCEPT ![UsedFieldOf(c)] = @ \cup {Head(resultCh[c])}]
    /\ resultCh' = [resultCh EXCEPT ![c] = Tail(@)]
    /\ helperI' = helperI + 1
    /\ UNCHANGED <<tlfType, nWriters, nReaders, resolverPc, resolved,
                   resolveErrCh, helperPc, helperRet, ctxDone>>
    /\ UNCHANGED <<storerVars, againVars, prefetcherOnlyVars, queueVars,
                   shutdownCh, doneCh,
                   wg>>

\* case <-ctx.Done(): return nil, ctx.Err()
HelperCtxDone ==
    /\ helperPc = "select"
    /\ helperI < NumUsers
    /\ ctxDone
    /\ helperRet' = [h |-> NilHandle, err |-> [kind |-> "ctx", user |-> 0]]
    /\ helperPc' = "returned"
    /\ UNCHANGED <<tlfType, nWriters, nReaders, resolverPc, resolved,
                   resolveErrCh, resultCh, helperI, used, ctxDone>>
    /\ UNCHANGED <<storerVars, againVars, prefetcherOnlyVars, queueVars,
                   shutdownCh, doneCh,
                   wg>>

\* Mutant of ResolvedReaders: the writers are not deleted from usedRNames.
ResolvedReaders_NoDelete == used.usedRNames

\* After the loop: a name resolved as writer is dropped from the readers,
\* and unresolved readers are kept for a Private folder only.
ResolvedReaders == used.usedRNames \ used.usedWNames
UnresolvedReaders ==
    IF tlfType = "Private"
    THEN used.usedUnresolvedReaders \ used.usedUnresolvedWriters
    ELSE {}

\* Mutant of NoSuchName: the readers of a Private folder are not looked at.
NoSuchName_WritersOnly ==
    CASE tlfType = "Private" ->
             \E id \in used.usedWNames : ~IsUser(id)
      [] tlfType = "Public" ->
             \E id \in used.usedWNames : ~IsUser(id)
      [] tlfType = "SingleTeam" ->
             \E id \in used.usedWNames : ~IsTeamOrSubteam(id)

\* The switch on the type: which IDs the folder may not have.
NoSuchName ==
    CASE tlfType = "Private" ->
             \E id \in used.usedWNames \cup ResolvedReaders : ~IsUser(id)
      [] tlfType = "Public" ->
             \E id \in used.usedWNames : ~IsUser(id)
      [] tlfType = "SingleTeam" ->
             \E id \in used.usedWNames : ~IsTeamOrSubteam(id)

\* All len(writers)+len(readers) results were received: the handle is built
\* from the maps, or NoSuchNameError is returned.
HelperBuild ==
    /\ helperPc = "select"
    /\ helperI = NumUsers
    /\ helperRet' =
          IF NoSuchName
          THEN [h |-> NilHandle,
                err |-> [kind |-> "NoSuchNameError", user |-> 0]]
          ELSE [h |-> [isNil |-> FALSE, tlfType |-> tlfType,
                       resolvedWriters |-> used.usedWNames,
                       resolvedReaders |-> ResolvedReaders,
                       unresolvedWriters |-> used.usedUnresolvedWriters,
                       unresolvedReaders |-> UnresolvedReaders],
                err |-> NoError]
    /\ helperPc' = "returned"
    /\ ctxDone' = TRUE
    /\ UNCHANGED <<tlfType, nWriters, nReaders, resolverPc, resolved,
                   resolveErrCh, resultCh, helperI, used>>
    /\ UNCHANGED <<storerVars, againVars, prefetcherOnlyVars, queueVars,
                   shutdownCh, doneCh,
                   wg>>

\* The caller's context is cancelled while the helper runs.
CancelCtx ==
    /\ helperPc \in {"entry", "select"}
    /\ ~ctxDone
    /\ ctxDone' = TRUE
    /\ UNCHANGED <<tlfType, nWriters, nReaders, resolverPc, resolved,
                   resolveErrCh, resultCh, helperPc, helperI, used, helperRet>>
    /\ UNCHANGED <<storerVars, againVars, prefetcherOnlyVars, queueVars,
                   shutdownCh, doneCh,
                   wg>>

\* A call of makeTlfHandleHelper with any type and up to MaxUsers users;
\* the prefetcher is left alone.
ResolveInit ==
    /\ PrefetcherInit
    /\ ~retrieverNil
    /\ ~syncedTlf
    /\ cache = {}
    /\ QueueIdle
    /\ tlfType \in TlfTypes
    /\ nWriters \in 0..MaxUsers
    /\ nReaders \in 0..(MaxUsers - nWriters)
    /\ resolverPc = [u \in Users |-> "none"]
    /\ resolved = [u \in Users |-> NoResult]
    /\ resolveErrCh = [buf |-> <<>>, sendq |-> <<>>]
    /\ resultCh = [c \in ResultChans |-> <<>>]
    /\ helperPc = "entry"
    /\ helperI = 0
    /\ used = NoUsed
    /\ helperRet = NoReturn
    /\ ctxDone = FALSE
    /\ NoResolveAgain
    /\ NoStorer

ResolveNext ==
    \/ HelperEnter
    \/ \E u \in Users : UserResolve(u)
    \/ \E u \in Users : UserSend(u)
    \/ HelperRecvErr
    \/ \E c \in ResultChans : HelperRecvResult(c)
    \/ HelperCtxDone
    \/ HelperBuild
    \/ CancelCtx

ResolveSpec == ResolveInit /\ [][ResolveNext]_vars

\* The scheduler runs every goroutine that can take a step, and every
\* user.resolve returns.
ResolveFairness ==
    /\ \A u \in Users : WF_vars(UserResolve(u)) /\ WF_vars(UserSend(u))
    /\ WF_vars(HelperEnter)
    /\ WF_vars(HelperRecvErr \/ HelperCtxDone
               \/ \E c \in ResultChans : HelperRecvResult(c))
    /\ WF_vars(HelperBuild)

LiveResolveSpec == ResolveInit /\ [][ResolveNext]_vars /\ ResolveFairness

\* ---- ResolveAgain and ResolveAgainForUser (ResolveAgainSpec) ----

\* The handles makeTlfHandleHelper returns: at least one writer, writers and
\* readers disjoint, readers for a Private folder only, IDs of the kind the
\* type allows, one writer for a team folder.
ValidHandle(h) ==
    /\ h.resolvedWriters \cup h.unresolvedWriters # {}
    /\ h.resolvedWriters \cap h.resolvedReaders = {}
    /\ h.unresolvedWriters \cap h.unresolvedReaders = {}
    /\ h.tlfType # "Private" =>
          h.resolvedReaders = {} /\ h.unresolvedReaders = {}
    /\ h.tlfType \in {"Private", "Public"} =>
          \A id \in h.resolvedWriters \cup h.resolvedReaders : IsUser(id)
    /\ h.tlfType = "SingleTeam" =>
          /\ \A id \in h.resolvedWriters : IsTeamOrSubteam(id)
          /\ Cardinality(h.resolvedWriters) + Cardinality(h.unresolvedWriters) = 1
    /\ Cardinality(h.resolvedWriters) + Cardinality(h.unresolvedWriters)
         + Cardinality(h.resolvedReaders) + Cardinality(h.unresolvedReaders)
         <= MaxUsers

Handles ==
    {h \in [isNil : {FALSE}, tlfType : TlfTypes,
            resolvedWriters : SUBSET UserOrTeamIDs,
            resolvedReaders : SUBSET UserOrTeamIDs,
            unresolvedWriters : SUBSET SocialAssertions,
            unresolvedReaders : SUBSET SocialAssertions] : ValidHandle(h)}

\* A set as a list, in some order.
RECURSIVE ListOf(_)
ListOf(S) ==
    IF S = {} THEN <<>>
    ELSE LET x == CHOOSE y \in S : TRUE IN <<x>> \o ListOf(S \ {x})

\* The writers or readers built from a handle's maps: a resolvableNameUIDPair
\* per resolved ID, then a resolvableAssertion per unresolved assertion.
ResolvablesOf(ids, sas) ==
    [i \in 1..Len(ListOf(ids)) |-> [kind |-> "pair", val |-> ListOf(ids)[i]]]
    \o [i \in 1..Len(ListOf(sas)) |->
           [kind |-> "assertion", val |-> ListOf(sas)[i]]]

\* Mutant of ResolveAgain: a final handle is resolved again like any other.
ResolveAgain_NoFinalCheck ==
    /\ againPc = "ResolveAgain"
    /\ againPc' = "ResolveAgainForUser"
    /\ UNCHANGED <<againCall, againUsers, againRet, resolverCalls>>
    /\ UNCHANGED <<storerVars, resolveVars, prefetcherOnlyVars, queueVars,
                   shutdownCh, doneCh, wg>>

\* ResolveAgain: a final handle is returned as it is; otherwise the call
\* goes on to ResolveAgainForUser with the empty uid.
ResolveAgain ==
    /\ againPc = "ResolveAgain"
    /\ IF againCall.final
       THEN /\ againRet' = [same |-> TRUE, h |-> againCall.h, err |-> NoError]
            /\ againPc' = "returned"
       ELSE /\ againPc' = "ResolveAgainForUser"
            /\ UNCHANGED againRet
    /\ UNCHANGED <<againCall, againUsers, resolverCalls>>
    /\ UNCHANGED <<storerVars, resolveVars, prefetcherOnlyVars, queueVars,
                   shutdownCh, doneCh, wg>>

\* ResolveAgainForUser: a handle without unresolved assertions is returned
\* as it is; otherwise the writers and readers are rebuilt from the handle
\* and makeTlfHandleHelper is called.
ResolveAgainForUser ==
    /\ againPc = "ResolveAgainForUser"
    /\ LET h == againCall.h
           writers == ResolvablesOf(h.resolvedWriters, h.unresolvedWriters)
           readers == IF h.tlfType = "Private"
                      THEN ResolvablesOf(h.resolvedReaders, h.unresolvedReaders)
                      ELSE <<>>
       IN  IF Cardinality(h.unresolvedWriters)
                + Cardinality(h.unresolvedReaders) = 0
           THEN /\ againRet' = [same |-> TRUE, h |-> h, err |-> NoError]
                /\ againPc' = "returned"
                /\ UNCHANGED <<againUsers, tlfType, nWriters, nReaders,
                               helperPc>>
           ELSE /\ againUsers' = writers \o readers
                /\ tlfType' = h.tlfType
                /\ nWriters' = Len(writers)
                /\ nReaders' = Len(readers)
                /\ helperPc' = "entry"
                /\ againPc' = "helper"
                /\ UNCHANGED againRet
    /\ UNCHANGED <<againCall, resolverCalls>>
    /\ UNCHANGED <<resolverPc, resolved, resolveErrCh, resultCh, helperI, used,
                   helperRet, ctxDone>>
    /\ UNCHANGED <<storerVars, prefetcherOnlyVars, queueVars, shutdownCh,
                   doneCh, wg>>

\* resolve of a user built by ResolveAgainForUser: a resolvableNameUIDPair
\* returns its pair; a resolvableAssertion calls resolver.Resolve and returns
\* the pair it resolved to, the assertion itself when there is no such user
\* (or not the user asked for), or the resolver's error.
ResolvableResolve(u) ==
    /\ againPc = "helper"
    /\ resolverPc[u] = "resolve"
    /\ IF againUsers[u].kind = "pair"
       THEN /\ resolved' = [resolved EXCEPT
                              ![u] = [kind |-> "pair", val |-> againUsers[u].val]]
            /\ UNCHANGED resolverCalls
       ELSE /\ \E r \in {[kind |-> "pair", val |-> id] : id \in UserOrTeamIDs}
                        \cup {[kind |-> "social", val |-> againUsers[u].val],
                              [kind |-> "error", val |-> "none"]} :
                   resolved' = [resolved EXCEPT ![u] = r]
            /\ resolverCalls' = resolverCalls + 1
    /\ resolverPc' = [resolverPc EXCEPT ![u] = "send"]
    /\ UNCHANGED <<againCall, againPc, againUsers, againRet>>
    /\ UNCHANGED <<tlfType, nWriters, nReaders, resolveErrCh, resultCh,
                   helperPc, helperI, used, helperRet, ctxDone>>
    /\ UNCHANGED <<storerVars, prefetcherOnlyVars, queueVars, shutdownCh,
                   doneCh, wg>>

\* makeTlfHandleHelper has returned: its error, or the new handle.
ResolveAgainReturn ==
    /\ againPc = "helper"
    /\ helperPc = "returned"
    /\ againRet' = [same |-> FALSE, h |-> helperRet.h, err |-> helperRet.err]
    /\ againPc' = "returned"
    /\ UNCHANGED <<againCall, againUsers, resolverCalls>>
    /\ UNCHANGED <<storerVars, resolveVars, prefetcherOnlyVars, queueVars,
                   shutdownCh, doneCh, wg>>

\* A call of ResolveAgain or of ResolveAgainForUser on any handle.
ResolveAgainInit ==
    /\ PrefetcherInit
    /\ ~retrieverNil
    /\ ~syncedTlf
    /\ cache = {}
    /\ QueueIdle
    /\ NoResolution
    /\ againCall \in [method : {"ResolveAgain", "ResolveAgainForUser"},
                      h : Handles, final : BOOLEAN]
    /\ againPc = againCall.method
    /\ againUsers = <<>>
    /\ againRet = NoAgainReturn
    /\ resolverCalls = 0
    /\ NoStorer

ResolveAgainNext ==
    \/ ResolveAgain
    \/ ResolveAgainForUser
    \/ HelperEnter
    \/ \E u \in Users : ResolvableResolve(u)
    \/ \E u \in Users : UserSend(u)
    \/ HelperRecvErr
    \/ \E c \in ResultChans : HelperRecvResult(c)
    \/ HelperCtxDone
    \/ HelperBuild
    \/ CancelCtx
    \/ ResolveAgainReturn

ResolveAgainSpec == ResolveAgainInit /\ [][ResolveAgainNext]_vars

\* ---- configWithoutRemotesStorer (StorerSpec) ----

\* c.Marshal(): the Raw form of c is brought up to date with its fields.
Marshal(c) == [c EXCEPT !.rawRemotes = c.remotes]

\* The copy SetConfig makes of a config with remotes: Core and Submodules of
\* c, no remotes, and the Raw form of c with its remote section emptied.
WithoutRemotes(c) ==
    [remotes |-> {}, core |-> c.core, submodules |-> c.submodules,
     rawRemotes |-> {}, rawOther |-> c.rawOther]

\* How a call of SetConfig ends: nil, the error of c.Marshal(), or the error
\* of Storage.SetConfig.
SetConfigResults == {"nil", "marshal", "storage"}

\* SetConfig(c). cwrs.cfg points to c from the first line on, whatever
\* happens next. With remotes, c is marshalled, the remote section of its
\* Raw form is emptied in place and a copy without remotes goes to the
\* storage; without remotes c itself goes to the storage, which marshals it.
SetConfig(c, res) ==
    /\ setIn' = c
    /\ setErr' = res
    /\ gotCfg' = NoConfig
    /\ IF c.remotes # {}
       THEN IF res = "marshal"
            THEN /\ cwrsCfg' = c
                 /\ handed' = NoConfig
                 /\ UNCHANGED diskCfg
            ELSE /\ cwrsCfg' = [c EXCEPT !.rawRemotes = {}]
                 /\ handed' = WithoutRemotes(c)
                 /\ diskCfg' = IF res = "nil"
                               THEN Marshal(WithoutRemotes(c)) ELSE diskCfg
       ELSE /\ res # "marshal"
            /\ handed' = c
            /\ IF res = "nil"
               THEN cwrsCfg' = Marshal(c) /\ diskCfg' = Marshal(c)
               ELSE cwrsCfg' \in {c, Marshal(c)} /\ UNCHANGED diskCfg
    /\ UNCHANGED <<againVars, resolveVars, prefetcherOnlyVars, queueVars,
                   shutdownCh, doneCh, wg>>

\* Mutant of Config: the config is read back from the storage.
Config_FromStorage ==
    /\ gotCfg' = diskCfg
    /\ UNCHANGED <<cwrsCfg, diskCfg, setIn, setErr, handed>>
    /\ UNCHANGED <<againVars, resolveVars, prefetcherOnlyVars, queueVars,
                   shutdownCh, doneCh, wg>>

\* Config(): returns cwrs.cfg.
Config ==
    /\ gotCfg' = cwrsCfg
    /\ UNCHANGED <<cwrsCfg, diskCfg, setIn, setErr, handed>>
    /\ UNCHANGED <<againVars, resolveVars, prefetcherOnlyVars, queueVars,
                   shutdownCh, doneCh, wg>>

\* newConfigWithoutRemotesStorer: the config is read from the storage once,
\* whatever the storage holds.
StorerInit ==
    /\ PrefetcherInit
    /\ ~retrieverNil
    /\ ~syncedTlf
    /\ cache = {}
    /\ QueueIdle
    /\ NoResolution
    /\ NoResolveAgain
    /\ diskCfg \in {Marshal(c) : c \in Configs}
    /\ cwrsCfg = diskCfg
    /\ setIn = NoConfig
    /\ setErr = "none"
    /\ handed = NoConfig
    /\ gotCfg = NoConfig

StorerNext ==
    \/ \E c \in Configs : \E res \in SetConfigResults : SetConfig(c, res)
    \/ Config

StorerSpec == StorerInit /\ [][StorerNext]_vars

\* ---- claims ----

ShutdownCalled == \E k \in ShutdownCalls : shutPc[k] # "idle"

\* The run loop has received request s and its tracking goroutine has not
\* finished.
Pending(s) == runReq = s \/ trk[s] \notin {"none", "fin"}

\* The run loop has received request s and the value of its retriever
\* channel has not been received yet.
InFlight(s) == runReq = s \/ trk[s] \in {"select", "cancelled"}

SlotsOf(c) == {s \in Slots : s[1] = c}

\* C1: when the done channel is closed, the shutdown channel is closed and no
\* request received by the run loop is still pending.
C1_DoneImpliesQuiescent ==
    doneCh = "closed" =>
        /\ shutdownCh = "closed"
        /\ wg = 0
        /\ \A s \in Slots : ~Pending(s)

C1_Witness ==
    /\ doneCh = "closed"
    /\ runPc = "exit"
    /\ \E s \in Slots : trk[s] = "fin"

\* C2: once Shutdown() has been called, and every retriever channel
\* eventually delivers, the done channel is eventually closed.
C2_ShutdownCompletes == ShutdownCalled ~> (doneCh = "closed")

C2_Witness ==
    /\ ~retrieverNil
    /\ \A k \in ShutdownCalls : shutPc[k] = "returned"
    /\ doneCh = "closed"
    /\ \E s \in Slots : errCh[s] = "taken"
    /\ \E c \in Calls : call[c].last = "eof"

\* C3: a tracking goroutine decrements the request's counter and the
\* engine's pending count only after it has received the value of the
\* retriever channel, on the shutdown path too (cancel, then receive); once
\* done is closed no retrieval issued by the engine is outstanding.
C3_DrainBeforeDecrement ==
    /\ \A s \in Slots :
         trk[s] \in {"got", "drained", "deferred", "fin"} => errCh[s] = "taken"
    /\ doneCh = "closed" => \A s \in Slots : errCh[s] \in {"none", "taken"}

C3_Witness ==
    /\ shutdownCh = "closed"
    /\ \E s \in Slots : trk[s] = "drained" /\ errCh[s] = "taken"

\* C4: the channel returned by PrefetchAfterBlockRetrieved is not closed
\* while a child request the run loop received for that call has not reached
\* a terminal outcome.
C4_ParentDoneImpliesChildrenTerminal ==
    \A c \in Calls :
        retDoneCh[c] = "closed" =>
            \A s \in SlotsOf(c) :
                /\ runReq # s
                /\ trk[s] # "none" => errCh[s] = "taken"

C4_Witness ==
    \E c \in Calls :
        /\ retDoneCh[c] = "closed"
        /\ waiterPc[c] = "done"
        /\ \E s \in SlotsOf(c) : trk[s] # "none"

\* The step in which request(), having found the pointer in the cache,
\* returns for call c.
CacheHitStep(c) ==
    /\ call[c].pc = "iter"
    /\ call'[c].pc \in {"iter", "returned"}
    /\ call'[c] # call[c]
    /\ call'[c].last = "hit"

\* C5: a request() for a cached pointer returns nil, sends nothing to the run
\* loop, and decrements the parent's fan-out counter exactly once.
C5_CacheHitDecrementsCounter ==
    [][\A c \in Calls :
          CacheHitStep(c) =>
              /\ RetVal(call'[c].last) = "nil"
              /\ runReq' = runReq /\ sendq' = sendq /\ nRequest' = nRequest
              /\ reqWg'[c] = reqWg[c] - 1]_vars

\* C6: the fan-out counter never stalls above zero: once the call has gone
\* through all its children and no child request is pending any more, the
\* counter is zero (so that the returned channel gets closed).
C6_CounterReachesZero ==
    \A c \in Calls :
        (/\ call[c].pc = "returned"
         /\ call[c].kind \in FanOutKinds
         /\ \A s \in SlotsOf(c) : ~Pending(s))
        => reqWg[c] = 0

\* C7: under any number of Shutdown() calls, overlapping or not, no channel
\* is closed a second time.
C7_NoSecondClose == ~panicked

\* C8 as stated: when the run loop is about to call retriever.Request for a
\* pointer, the pointer is not in the block cache.
C8_AbsentAtIssue == runPc = "issue" => slot[runReq] \notin cache

\* C8 as amended: a request goes on to the run loop only if its pointer was
\* absent from the block cache when request() made its check.
C8_AbsentAtAdmission ==
    [][\A c \in Calls :
          (call[c].pc = "iter" /\ call'[c].pc = "select")
              => slot'[CurSlot(c)] \notin cache]_vars

C8_Witness == runPc = "issue" /\ slot[runReq] \notin cache

\* C9 as stated: for every pointer at most one prefetch is in flight.
C9_OneInFlightPerPointer ==
    \A id \in IDs : Cardinality({s \in Slots : InFlight(s) /\ slot[s] = id}) <= 1

\* C9 as amended: every request the run loop received leads to one
\* retriever.Request call and was admitted by its own request() call, so the
\* prefetches in flight for a pointer are at most as many as the request()
\* calls admitted for it.
C9_OneInFlightPerRequest ==
    \A s \in Slots :
        /\ nRequest[s] <= 1
        /\ InFlight(s) => (slot[s] # NoID /\ nRequest[s] = IF runReq = s THEN 0 ELSE 1)

C9_Witness ==
    \E s, t \in Slots :
        /\ s # t
        /\ slot[s] = slot[t]
        /\ trk[s] = "select" /\ trk[t] = "select"

\* The step in which request(), entered after shutdownCh was closed, returns
\* from its select for call c.
LateSelectStep(c) ==
    /\ call[c].pc = "select"
    /\ call[c].late
    /\ call'[c] # call[c]

\* C10: a request() entered after shutdown for an uncached pointer of a
\* supported version returns the wrapped io.EOF, hands nothing to the
\* retriever, and decrements the parent's fan-out counter exactly once.
C10_ShutdownRejectDecrementsCounter ==
    [][\A c \in Calls :
          LateSelectStep(c) =>
              /\ RetVal(call'[c].last) = "io.EOF"
              /\ runReq' = runReq /\ nRequest' = nRequest
              /\ reqWg'[c] = reqWg[c] - 1]_vars

\* The step in which request(), having found the pointer's data version
\* unsupported, returns for call c.
BadVersionStep(c) ==
    /\ call[c].pc = "iter"
    /\ call'[c].pc \in {"iter", "returned"}
    /\ call'[c] # call[c]
    /\ call'[c].last = "verr"

\* C11: a request() for an uncached pointer of an unsupported data version
\* returns the data-version error, sends nothing to the run loop, and
\* decrements the parent's fan-out counter exactly once.
C11_BadVersionDecrementsCounter ==
    [][\A c \in Calls :
          BadVersionStep(c) =>
              /\ RetVal(call'[c].last) = "DataVersionError"
              /\ runReq' = runReq /\ sendq' = sendq /\ nRequest' = nRequest
              /\ reqWg'[c] = reqWg[c] - 1]_vars

\* A fan-out over a block without entries has returned.
EmptyFanOutReturned(c) ==
    /\ call[c].kind \in FanOutKinds
    /\ call[c].len = 0
    /\ call[c].pc = "returned"

\* C12 as stated: when PrefetchAfterBlockRetrieved returns from a fan-out over
\* a block without entries, the returned channel is already closed.
C12_EmptyFanOutClosedAtReturn ==
    \A c \in Calls : EmptyFanOutReturned(c) => retDoneCh[c] = "closed"

\* C12 as amended: when the call returns, the counter is zero and the
\* goroutine that closes the channel has been started; the channel is open
\* until that goroutine has run and closed from then on.
C12_EmptyFanOutClosedByWaiter ==
    \A c \in Calls :
        EmptyFanOutReturned(c) =>
            /\ reqWg[c] = 0
            /\ \/ waiterPc[c] = "waiting" /\ retDoneCh[c] = "open"
               \/ waiterPc[c] = "done" /\ retDoneCh[c] = "closed"

C12_Witness ==
    \E c \in Calls :
        /\ EmptyFanOutReturned(c)
        /\ waiterPc[c] = "done"
        /\ retDoneCh[c] = "closed"
        /\ shutdownCh = "open"

\* C13: PrefetchAfterBlockRetrieved on a direct FileBlock or on a block that
\* is neither a FileBlock nor a DirBlock hands no request to the engine, makes
\* no retriever call, and has closed the returned channel when it returns.
C13_LeafSubmitsNothing ==
    \A c \in Calls :
        call[c].kind = "Leaf" =>
            /\ call[c].pc = "returned"
            /\ retDoneCh[c] = "closed"
            /\ waiterPc[c] = "none"
            /\ \A i \in 1..Len(sendq) : sendq[i] # c
            /\ \A s \in SlotsOf(c) :
                 /\ slot[s] = NoID /\ runReq # s
                 /\ trk[s] = "none" /\ errCh[s] = "none" /\ nRequest[s] = 0

C13_Witness ==
    /\ ~retrieverNil
    /\ shutdownCh = "open"
    /\ \E c \in Calls : call[c].kind = "Leaf" /\ retDoneCh[c] = "closed"

\* The step in which the loop of prefetchDirectDirBlock skips an entry of a
\* type other than Dir, File, Exec.
SkipStep(c) ==
    /\ call[c].pc = "iter"
    /\ call'[c].pc \in {"iter", "returned"}
    /\ call'[c] # call[c]
    /\ call'[c].last = "skip"

\* C14: an entry of another type than Dir, File, Exec hands nothing to the
\* engine, decrements the fan-out counter exactly once, and the loop goes on
\* to the next entry.
C14_SkipDecrementsAndContinues ==
    [][\A c \in Calls :
          SkipStep(c) =>
              /\ reqWg'[c] = reqWg[c] - 1
              /\ runReq' = runReq /\ sendq' = sendq /\ nRequest' = nRequest
              /\ slot' = slot
              /\ call[c].idx < call[c].len =>
                   /\ call'[c].pc = "iter"
                   /\ call'[c].idx = call[c].idx + 1]_vars

\* The first entry was skipped (counter decremented, nothing admitted) and
\* the second entry's request is with the retriever.
C14_Witness ==
    \E c \in Calls :
        /\ call[c].kind = "DirDirect" /\ call[c].len = 2
        /\ call[c].pc = "returned"
        /\ slot[<<c, 1>>] = NoID /\ trk[<<c, 1>>] = "none"
        /\ trk[<<c, 2>>] = "select"
        /\ reqWg[c] = 1

\* C15: within one fan-out the child at 0-based position i of the list is
\* requested with the starting priority minus i, so priorities strictly
\* decrease along the list; and the retriever gets the accepted requests of a
\* fan-out in list order: once a later child has been issued, no earlier
\* child of the same fan-out is issued any more.
C15_PrioritiesDecreaseInListOrder ==
    /\ [](\A c \in Calls :
            call[c].kind \in FanOutKinds =>
                \A i, j \in 1..MaxChildren :
                    /\ slot[<<c, i>>] # NoID =>
                         priority[<<c, i>>] = call[c].start - (i - 1)
                    /\ (i < j /\ slot[<<c, i>>] # NoID /\ slot[<<c, j>>] # NoID)
                         => priority[<<c, i>>] > priority[<<c, j>>])
    /\ [][\A c \in Calls : \A i, j \in 1..MaxChildren :
            (i < j /\ nRequest[<<c, j>>] = 1)
                => nRequest'[<<c, i>>] = nRequest[<<c, i>>]]_vars

C15_Witness ==
    \E c \in Calls :
        /\ call[c].kind \in FanOutKinds
        /\ nRequest[<<c, 1>>] = 1 /\ nRequest[<<c, 2>>] = 1
        /\ priority[<<c, 1>>] = call[c].start
        /\ priority[<<c, 2>>] = call[c].start - 1

\* C17: the starting priority of a fan-out is defaultOnDemandRequestPriority
\* - 1 in a synced folder, whatever the base, and the base (-100 for indirect
\* blocks, -200 for directory entries) otherwise; every priority a fan-out
\* issues is below defaultOnDemandRequestPriority.
C17_StartingPriority ==
    \A c \in Calls :
        call[c].kind \in FanOutKinds =>
            /\ syncedTlf => call[c].start = defaultOnDemandRequestPriority - 1
            /\ ~syncedTlf =>
                 call[c].start = IF call[c].kind = "Indirect"
                                 THEN fileIndirectBlockPrefetchPriority
                                 ELSE dirEntryPrefetchPriority
            /\ \A s \in SlotsOf(c) :
                 slot[s] # NoID => priority[s] < defaultOnDemandRequestPriority

C17_Witness ==
    /\ syncedTlf
    /\ \E c \in Calls :
         /\ call[c].kind = "DirDirect"
         /\ slot[<<c, 2>>] # NoID
         /\ priority[<<c, 2>>] = defaultOnDemandRequestPriority - 2

\* ---- claims about the retrieval queue (RetrievalSpec) ----

IsDirectDirRound == lastRound.parent # "none" /\ ~IsIndBlock(lastRound.parent)

\* C16: in the fan-out of a direct directory block, of two prefetchable
\* entries the one of smaller size is submitted before the other and with a
\* strictly higher priority, whatever order the Children map was iterated in.
C16_SmallerEntriesFirst ==
    IsDirectDirRound =>
        \A i, j \in DOMAIN lastRound.reqs :
            EntrySize(lastRound.parent, lastRound.reqs[i].blk)
                < EntrySize(lastRound.parent, lastRound.reqs[j].blk)
            => /\ i < j
               /\ lastRound.reqs[i].priority > lastRound.reqs[j].priority

\* A direct directory with two prefetchable entries of different sizes has
\* been fanned out.
C16_Witness ==
    /\ IsDirectDirRound
    /\ lastRound.parent = "root"
    /\ Len(lastRound.reqs) = 2
    /\ tree.size["a"] # tree.size["b"]

Prefetched(b, flag) ==
    bcache[b] = [present |-> TRUE, hasPrefetched |-> flag,
                 lifetime |-> TransientEntry]

\* C18 as stated: once the channel of Shutdown() is closed, every block of
\* which an on-demand retrieval succeeded is in the cache with hasPrefetched
\* true and Transient lifetime.
C18_DemandedBlockPrefetched ==
    doneCh = "closed" =>
        \A b \in Blocks : demanded[b] \in {"nil", "stale"} => Prefetched(b, TRUE)

\* C18 (amended): once the channel of Shutdown() is closed, every block of
\* which an on-demand retrieval succeeded, and whose entry was not removed
\* from the cache since, is in the cache with hasPrefetched true and
\* Transient lifetime; also an empty directory and a block of which a child's
\* retrieval failed.
C18_DemandedBlockPrefetchedUnlessRemoved ==
    doneCh = "closed" =>
        \A b \in Blocks : demanded[b] = "nil" => Prefetched(b, TRUE)

\* The on-demand retrieval of the root succeeded, a child's retrieval failed,
\* and the shutdown is complete.
C18_Witness ==
    /\ doneCh = "closed"
    /\ demanded["root"] = "nil"
    /\ \E k \in tree.kids : delivered[k] = "err" /\ ~bcache[k].present

\* C19 as stated: in a folder that is not synced, once the channel of
\* Shutdown() is closed every child of which the prefetch retrieval succeeded
\* is in the cache with Transient lifetime and hasPrefetched false.
C19_PrefetchedChildNotPrefetched ==
    (doneCh = "closed" /\ ~syncedTlf) =>
        \A b \in Blocks :
            delivered[b] \in {"nil", "stale"} => Prefetched(b, FALSE)

\* C19 (amended): in a folder that is not synced, once the channel of
\* Shutdown() is closed every child of which the prefetch retrieval
\* succeeded, and which was neither requested on demand nor removed from the
\* cache since, is in the cache with Transient lifetime and hasPrefetched
\* false.
C19_PrefetchedChildUnlessDemandedOrRemoved ==
    (doneCh = "closed" /\ ~syncedTlf) =>
        \A b \in Blocks : delivered[b] = "nil" => Prefetched(b, FALSE)

\* Both children of an unsynced root were prefetched and the shutdown is
\* complete.
C19_Witness ==
    /\ doneCh = "closed"
    /\ ~syncedTlf
    /\ tree.kids = Kids
    /\ \A k \in Kids : delivered[k] = "nil" /\ bcache[k].present

\* A retrieval of block b that the prefetcher waits for ends without the
\* block being stored: it delivered an error.
ErrorDelivered(b) ==
    /\ retrieval[b].active
    /\ retrieval[b].waiters > 0
    /\ ~retrieval'[b].active
    /\ ~bcache'[b].present

\* The delivery of an error for child b stores nothing and removes nothing,
\* reaches nobody but the requests of b itself, and is counted as done by the
\* parent's counter and by the prefetcher's.
ErrorCounted ==
    \A b \in Blocks :
        ErrorDelivered(b) =>
            /\ delivered'[b] = "err"
            /\ bcache' = bcache
            /\ \A x \in Blocks \ {b} : demanded'[x] = demanded[x]
            /\ ~IsDemand(retrieval[b]) => demanded' = demanded
            /\ wg' = wg - retrieval[b].waiters
            /\ childWg'[ParentOf(b)] =
                   childWg[ParentOf(b)] - retrieval[b].waiters

ParentServedPrefetched(p, k) ==
    /\ nDemand' = nDemand + 1
    /\ k \in ChildrenOf(p)
    /\ bcache[p].present
    /\ bcache[p].hasPrefetched

\* C21: prefetches are triggered only once for a block: while it stays in
\* the cache PrefetchAfterBlockRetrieved is called for it at most once, and
\* an on-demand request made while the parent is cached with its prefetch
\* round done queues no prefetch of a child (a retrieval of the child starts
\* only when the child itself is requested on demand) and leaves an absent
\* child absent, also when the child was deleted from the cache and the
\* prefetcher was restarted.
C21_PrefetchTriggeredOnce ==
    /\ [](\A b \in Blocks : nRound[b] <= 1)
    /\ [][\A p \in Parents : \A k \in Blocks :
            ParentServedPrefetched(p, k) =>
                /\ retrieval'[k].waiters = retrieval[k].waiters
                /\ nRound'[p] = nRound[p]
                /\ ~bcache[k].present => ~bcache'[k].present
                /\ retrieval'[k] # retrieval[k] => IsDemand(retrieval'[k])]_vars

\* The root was requested twice and nothing else was; its child was
\* prefetched and then deleted from the cache; the child is absent, no
\* retrieval of it is queued and the done channel is closed.
C21_Witness ==
    /\ nDemand = 2
    /\ \A b \in Blocks \ {"root"} : demanded[b] = "none"
    /\ demanded["root"] = "nil"
    /\ nRound["root"] = 1
    /\ tree.kids = {"a"}
    /\ delivered["a"] = "stale"
    /\ ~bcache["a"].present
    /\ ~retrieval["a"].active
    /\ doneCh = "closed"

RunLoopReceives == runPc # "issue" /\ runPc' = "issue"

\* C23 as stated: no retriever.Request call is started once shutdownCh is
\* closed.
C23_NoRequestCallAfterShutdown ==
    [][shutdownCh = "closed" => nRequest' = nRequest]_vars

\* C23 (amended): once shutdownCh is closed the run loop receives no further
\* request, also when a request() caller was blocked sending when the channel
\* was closed; the only retriever.Request call started after the close is
\* the one of a request the run loop had received before it.
C23_NoReceiveAfterShutdown ==
    [][shutdownCh = "closed" =>
          /\ ~RunLoopReceives
          /\ nRequest' # nRequest =>
                /\ runPc = "issue"
                /\ nRequest' = [nRequest EXCEPT ![runReq] = 1]
                /\ runPc' = "select"]_vars

\* shutdownCh was closed while the run loop held a request it had received
\* and a second caller was blocked sending; that caller got the error.
C23_Witness ==
    /\ shutdownCh = "closed"
    /\ runPc = "issue"
    /\ \E c \in Calls : call[c].last = "eof" /\ c # runReq[1]

\* The steps of a tracking goroutine: started by the run loop, one receive
\* from errCh (at once, or after cancel() on the shutdown case), req.wg.Done(),
\* the deferred calls.
TrackerSteps ==
    {<<"none", "select">>, <<"select", "got">>, <<"select", "cancelled">>,
     <<"cancelled", "drained">>, <<"got", "deferred">>,
     <<"drained", "deferred">>, <<"deferred", "fin">>}

\* C24: a request the run loop received has at most one retriever.Request
\* call, and exactly one by the time its tracking goroutine has called
\* req.wg.Done(); the channel of that call is received from once, on the
\* completion path or on the shutdown path; req.wg is decremented once, after
\* that receive; and no second retriever.Request call follows, whatever the
\* retrieval delivered.
C24_OncePerAcceptedRequest ==
    /\ [](\A s \in Slots :
            /\ nRequest[s] <= 1
            /\ trk[s] # "none" => nRequest[s] = 1
            /\ trk[s] \in {"deferred", "fin"} => errCh[s] = "taken")
    /\ [][\A s \in Slots :
            /\ trk'[s] # trk[s] => <<trk[s], trk'[s]>> \in TrackerSteps
            /\ (errCh[s] # "taken" /\ errCh'[s] = "taken")
                  <=> (trk'[s] # trk[s] /\ trk'[s] \in {"got", "drained"})
            /\ errCh[s] = "taken" => errCh'[s] = "taken"
            /\ (trk'[s] # trk[s] /\ trk'[s] = "deferred") =>
                  reqWg'[s[1]] = reqWg[s[1]] - 1
            /\ (reqWg'[s[1]] # reqWg[s[1]] /\ call'[s[1]] = call[s[1]]) =>
                  \E t \in SlotsOf(s[1]) :
                      trk'[t] # trk[t] /\ trk'[t] = "deferred"]_vars

\* One request is on the completion path and another on the shutdown path,
\* each after its one receive.
C24_Witness ==
    \E s, t \in Slots :
        /\ trk[s] = "got"
        /\ trk[t] = "drained"
        /\ errCh[s] = "taken" /\ errCh[t] = "taken"
        /\ nRequest[s] = 1 /\ nRequest[t] = 1

\* Call c is inside the select of request().
InSelect(c) == call[c].pc \in {"select", "parked"}

\* C25: every request() call that reaches its select returns (the run loop
\* takes the request, or shutdownCh is closed), given that the run loop and
\* the caller are scheduled and retriever.Request returns; and once the run
\* loop has left its loop, or when none exists, shutdownCh is closed and no
\* caller is parked on progressCh.
C25_RequestReturns ==
    /\ [](runPc \in {"none", "wait", "exit"} =>
            /\ shutdownCh = "closed"
            /\ sendq = <<>>
            /\ \A c \in Calls : call[c].pc # "parked")
    /\ \A c \in Calls : InSelect(c) ~> ~InSelect(c)

\* A caller that was parked on progressCh has returned the shutdown error and
\* the run loop has exited.
C25_Witness ==
    /\ runPc = "exit"
    /\ \E c \in Calls : call[c].pc = "returned" /\ call[c].last = "eof"
    /\ \E s \in Slots : nRequest[s] = 1

\* Running, ShuttingDown, Drained.
Phase ==
    IF doneCh = "closed" THEN 3 ELSE IF shutdownCh = "closed" THEN 2 ELSE 1

\* C26: once doneCh is closed no retriever.Request call is made and no
\* tracking goroutine is started any more, whatever is called on the
\* prefetcher; a closed doneCh means a closed shutdownCh and a run loop that
\* has exited (or never existed); and the prefetcher only goes from Running
\* to ShuttingDown to Drained.
C26_DrainedIsFinal ==
    /\ [](doneCh = "closed" =>
            /\ shutdownCh = "closed"
            /\ runPc \in {"none", "exit"}
            /\ runReq = NoSlot)
    /\ [][/\ Phase' >= Phase
          /\ doneCh = "closed" =>
                /\ nRequest' = nRequest
                /\ wg' = wg
                /\ \A s \in Slots : trk[s] = "none" => trk'[s] = "none"]_vars

\* The done channel of a prefetcher that had a run loop is closed, and a
\* request() call entered after the shutdown is in its select.
C26_Witness ==
    /\ ~retrieverNil
    /\ doneCh = "closed"
    /\ \E s \in Slots : nRequest[s] = 1
    /\ \E c \in Calls : call[c].pc = "select" /\ call[c].late

\* What holds of a prefetcher made with a nil retriever, whatever request()
\* returns: both channels are closed, there is no run loop, no Shutdown()
\* call closes anything, the retriever is never called.
NilRetrieverShutDown ==
    /\ shutdownCh = "closed"
    /\ doneCh = "closed"
    /\ runPc = "none"
    /\ ~panicked
    /\ \A k \in ShutdownCalls : shutPc[k] # "close"
    /\ \A s \in Slots : nRequest[s] = 0 /\ trk[s] = "none"

\* C27 as stated: with a nil retriever the prefetcher is shut down from the
\* start, and every request() for a pointer that is not cached returns the
\* shutdown error.
C27_NilRetrieverRejectsAllUncached ==
    retrieverNil =>
        /\ NilRetrieverShutDown
        /\ \A c \in Calls : call[c].last \notin {"sent", "verr"}

\* C27 (amended): with a nil retriever the prefetcher is shut down from the
\* start, and every request() for a pointer that is not cached and whose
\* data version is supported returns the shutdown error; the data-version
\* check comes first and returns its own error.
C27_NilRetrieverRejectsAdmitted ==
    /\ [](retrieverNil =>
            /\ NilRetrieverShutDown
            /\ \A c \in Calls :
                 /\ call[c].last # "sent"
                 /\ call[c].pc # "parked"
                 /\ call[c].pc = "select" => call[c].late)
    /\ [][\A c \in Calls :
            (retrieverNil /\ call[c].pc = "select" /\ call'[c] # call[c])
                => RetVal(call'[c].last) = "io.EOF"]_vars

\* With a nil retriever a request() has returned the shutdown error and a
\* Shutdown() call has returned.
C27_Witness ==
    /\ retrieverNil
    /\ \E c \in Calls : call[c].last = "eof"
    /\ \E k \in ShutdownCalls : shutPc[k] = "returned"

IsPrefetchBlock(c) == call[c].kind = "PrefetchBlock"

\* Request s has gone to the run loop.
HandedOver(s) == runReq = s \/ trk[s] # "none"

\* C28: PrefetchBlock makes one request() call and no more, with the priority
\* the caller gave, synced folder or not, and a counter of its own set to 1;
\* it starts no goroutine and returns no channel; it returns what request()
\* returned: nil when the run loop took the request or the pointer was
\* cached, an error when the data version or the shutdown rejected it; that
\* result is fixed when request() returns, before the retriever is called,
\* so it is never a retrieval failure.
C28_PrefetchBlockPassesThrough ==
    /\ [](\A c \in Calls :
            IsPrefetchBlock(c) =>
                /\ call[c].len = 1 /\ call[c].idx = 1
                /\ call[c].start \in PrefetchPriorities
                /\ slot[<<c, 1>>] # NoID => priority[<<c, 1>>] = call[c].start
                /\ \A s \in SlotsOf(c) : s[2] > 1 => slot[s] = NoID /\ ~HandedOver(s)
                /\ reqWg[c] \in {0, 1}
                /\ waiterPc[c] = "none" /\ retDoneCh[c] = "none"
                /\ call[c].pc = "returned" =>
                      /\ RetVal(call[c].last) \in
                             {"nil", "DataVersionError", "io.EOF"}
                      /\ call[c].last = "sent" <=> HandedOver(<<c, 1>>)
                      /\ call[c].last = "hit" => slot[<<c, 1>>] = NoID)
    /\ [][\A c \in Calls :
            (IsPrefetchBlock(c) /\ call[c].pc # "returned"
                /\ call'[c].pc = "returned")
              => errCh[<<c, 1>>] = "none" /\ errCh'[<<c, 1>>] = "none"]_vars

\* In a synced folder PrefetchBlock has returned nil for a request the run
\* loop took, and the retriever was called with defaultPrefetchPriority.
C28_Witness ==
    \E c \in Calls :
        /\ IsPrefetchBlock(c)
        /\ syncedTlf
        /\ call[c].pc = "returned"
        /\ call[c].last = "sent"
        /\ nRequest[<<c, 1>>] = 1
        /\ priority[<<c, 1>>] = defaultPrefetchPriority

\* ---- claims about makeTlfHandleHelper (ResolveSpec, LiveResolveSpec) ----

SomeResolveFailed == \E u \in Users : resolved[u].kind = "error"

\* C29: once the resolve of some writer or reader has returned an error, what
\* makeTlfHandleHelper returns is the nil handle with a non-nil error: an
\* error that a goroutine sent to errCh, which is what that user's resolve
\* ended with, or the error of the context; never a handle.
C29_ErrorMeansNoHandle ==
    (helperPc = "returned" /\ SomeResolveFailed) =>
        /\ helperRet.h = NilHandle
        /\ helperRet.err.kind \in {"error", "empty", "ctx"}
        /\ helperRet.err.kind \in {"error", "empty"} =>
               resolved[helperRet.err.user].kind = helperRet.err.kind

\* One user's resolve failed after another user's pair was received, and the
\* helper returned that error.
C29_Witness ==
    /\ helperPc = "returned"
    /\ helperI >= 1
    /\ helperRet.err.kind = "error"
    /\ helperRet.h = NilHandle
    /\ \E u \in Users : resolved[u].kind = "pair"

\* C30: every resolveOneUser goroutine that makeTlfHandleHelper started
\* terminates, whatever the users' resolve calls return and whether or not
\* the helper has already returned.
C30_EveryResolverTerminates ==
    \A u \in Users : (resolverPc[u] = "resolve") ~> (resolverPc[u] = "done")

\* What the users of a set resolved to, by kind of result.
ResultsOf(us, kind) == {resolved[u].val : u \in {v \in us : resolved[v].kind = kind}}

\* The handle as a function of what the writers and the readers resolved to,
\* whatever the order in which the results arrived.
HandleOfResults ==
    [isNil |-> FALSE, tlfType |-> tlfType,
     resolvedWriters |-> ResultsOf(Writers, "pair"),
     resolvedReaders |-> ResultsOf(Readers, "pair") \ ResultsOf(Writers, "pair"),
     unresolvedWriters |-> ResultsOf(Writers, "social"),
     unresolvedReaders |->
         IF tlfType = "Private"
         THEN ResultsOf(Readers, "social") \ ResultsOf(Writers, "social")
         ELSE {}]

\* C31: in a handle that makeTlfHandleHelper returned no ID is both a resolved
\* writer and a resolved reader, no assertion is both an unresolved writer and
\* an unresolved reader, unresolvedReaders is empty unless the type is
\* Private, and the handle is the one determined by what the users resolved
\* to, whatever the order in which the resolutions completed.
C31_WritersTakePrecedence ==
    (helperPc = "returned" /\ ~helperRet.h.isNil) =>
        /\ helperRet.h.resolvedWriters \cap helperRet.h.resolvedReaders = {}
        /\ helperRet.h.unresolvedWriters \cap helperRet.h.unresolvedReaders = {}
        /\ tlfType # "Private" => helperRet.h.unresolvedReaders = {}
        /\ helperRet.h = HandleOfResults

\* A handle was returned for a folder one of whose readers resolved to the
\* same ID as one of its writers.
C31_Witness ==
    /\ helperPc = "returned"
    /\ ~helperRet.h.isNil
    /\ \E w \in Writers : \E r \in Readers :
          resolved[w].kind = "pair" /\ resolved[r] = resolved[w]

\* The arguments the helper refuses on entry.
RejectedOnEntry ==
    \/ tlfType # "Private" /\ nReaders > 0
    \/ tlfType = "SingleTeam" /\ nWriters # 1

\* Some writer or reader resolved to an ID the type of the folder does not
\* allow.
ResolvedToWrongKind ==
    \/ /\ tlfType = "Private"
       /\ \E id \in ResultsOf(Writers \cup Readers, "pair") : ~IsUser(id)
    \/ /\ tlfType = "Public"
       /\ \E id \in ResultsOf(Writers, "pair") : ~IsUser(id)
    \/ /\ tlfType = "SingleTeam"
       /\ \E id \in ResultsOf(Writers, "pair") : ~IsTeamOrSubteam(id)

\* C32: a type other than Private with a reader, and SingleTeam with a number
\* of writers other than 1, are refused with an error and no goroutine is
\* ever started; and when a resolved ID is of a kind the folder's type does
\* not allow, no handle is returned, and once all the results were received
\* the error returned is NoSuchNameError.
C32_RejectsBadArgumentsAndNames ==
    /\ RejectedOnEntry =>
          /\ \A u \in Users : resolverPc[u] = "none"
          /\ helperPc \in {"entry", "returned"}
          /\ helperPc = "returned" =>
                /\ helperRet.h = NilHandle
                /\ helperRet.err.kind \in {"readers", "writers"}
    /\ (helperPc = "returned" /\ ResolvedToWrongKind) =>
          /\ helperRet.h = NilHandle
          /\ helperI = NumUsers => helperRet.err.kind = "NoSuchNameError"

\* A Private folder whose writers are users and one of whose readers resolved
\* to a team: NoSuchNameError was returned.
C32_Witness ==
    /\ helperPc = "returned"
    /\ tlfType = "Private"
    /\ helperRet.err.kind = "NoSuchNameError"
    /\ \A id \in ResultsOf(Writers, "pair") : IsUser(id)
    /\ \E id \in ResultsOf(Readers, "pair") : ~IsUser(id)

\* ---- claims about ResolveAgain (ResolveAgainSpec) ----

FullyResolved ==
    againCall.h.unresolvedWriters = {} /\ againCall.h.unresolvedReaders = {}

\* C33: ResolveAgainForUser on a handle without unresolved writers and
\* readers, and ResolveAgain on a handle that is final or has no unresolved
\* writers and readers, never call the resolver or makeTlfHandleHelper and
\* return the receiver itself with a nil error.
C33_ResolvedOrFinalIsNoOp ==
    (\/ againCall.method = "ResolveAgainForUser" /\ FullyResolved
     \/ againCall.method = "ResolveAgain" /\ (againCall.final \/ FullyResolved))
    => /\ resolverCalls = 0
       /\ helperPc = "idle"
       /\ againPc = "returned" =>
             againRet = [same |-> TRUE, h |-> againCall.h, err |-> NoError]

\* ResolveAgain returned a final handle that still has an unresolved
\* assertion.
C33_Witness ==
    /\ againCall.method = "ResolveAgain"
    /\ againCall.final
    /\ ~FullyResolved
    /\ againPc = "returned"
    /\ againRet.same

\* ---- claims about configWithoutRemotesStorer (StorerSpec) ----

\* C34: after a SetConfig(c) that returned nil, the storage was handed, and
\* holds, a config without remotes when c has remotes, and was handed c
\* itself when c has none; Config() returns what the storer holds, which is c
\* with all of its remotes, its Core, its Submodules and its unknown fields,
\* and not what the storage holds.
C34_ConfigKeepsRemotes ==
    /\ [](setErr = "nil" =>
            /\ setIn.remotes # {} =>
                  /\ handed.remotes = {}
                  /\ handed.rawRemotes = {}
                  /\ diskCfg.remotes = {}
                  /\ diskCfg.rawRemotes = {}
            /\ setIn.remotes = {} => handed = setIn
            /\ gotCfg # NoConfig =>
                  /\ gotCfg.remotes = setIn.remotes
                  /\ gotCfg.core = setIn.core
                  /\ gotCfg.submodules = setIn.submodules
                  /\ gotCfg.rawOther = setIn.rawOther)
    /\ [][gotCfg' # gotCfg /\ gotCfg' # NoConfig =>
             gotCfg' = cwrsCfg /\ diskCfg' = diskCfg]_vars

\* Config() was called after a successful SetConfig of a config with two
\* remotes: it returned both, and the storage holds none.
C34_Witness ==
    /\ setErr = "nil"
    /\ setIn.remotes = RemoteNames
    /\ gotCfg.remotes = RemoteNames
    /\ diskCfg.remotes = {}

====
